---------------------------- MODULE Spec2Model ----------------------------
(***************************************************************************)
(* Verification model of the wakame / mozuku Japanese proofreading server. *)
(*                                                                         *)
(* Strings are sequences of UTF-16 code units (natural numbers), so that   *)
(* String.prototype.indexOf, slice and length keep their JavaScript        *)
(* meaning.  Offsets are 0-based as in the source; TLA+ sequences are      *)
(* 1-based, so text[i + 1] is the code unit at offset i.                   *)
(*                                                                         *)
(* Code units used:  12354 HIRAGANA A,  12289 IDEOGRAPHIC COMMA,           *)
(* 12290 IDEOGRAPHIC FULL STOP, 65281 FULLWIDTH '!', 65311 FULLWIDTH '?',  *)
(* 33 '!', 63 '?', 10 newline, 97 'a'.                                     *)
(* Part-of-speech tags are compared only for equality and are written in   *)
(* romaji: "Kigou" is the symbol category, "Meishi" the noun category.     *)
(***************************************************************************)
EXTENDS Integers, Sequences, FiniteSets, TLC

VARIABLES
  \* one analysis of one text: analyze() = tokenize ; splitSentences,
  \* followed by checkGrammar
  text,          \* the string handed to tokenize / splitSentences
  records,       \* the raw records the backend returns for text
  tokens,        \* Token[] (tokenize's result, or splitSentences' input)
  sentences,     \* Sentence[]
  diagnostics,   \* DiagnosticInfo[]
  config,        \* the configuration snapshot of the pass
  pc             \* position in the analysis

avars == <<text, records, tokens, sentences, diagnostics, config, pc>>

VARIABLES
  \* the language server process
  mecabInstance, \* mecabAnalyzer.ts: mecabInstance !== null
  initPromise,   \* mecabAnalyzer.ts: initPromise, "null" or the promise's state
  loadStarts,    \* how many times the backend load has been started
  callers,       \* each caller of initializeMecab: where it stands
  docText,       \* documents: the current text of each open document
  published,     \* the diagnostics last sent for each document
  passes,        \* the validateTextDocument calls in flight
  lastStep       \* what the most recent handler step did

svars == <<mecabInstance, initPromise, loadStarts, callers, docText,
           published, passes, lastStep>>

VARIABLES
  \* one validation pass over one document, segment by segment
  languageId,    \* textDocument.languageId
  segments,      \* getAnalyzableText's result
  trace,         \* for each diagnostic sent: its segment and DiagnosticInfo
  allDiagnostics \* the diagnostics handed to sendDiagnostics

xvars == <<languageId, segments, trace, allDiagnostics>>

VARIABLES
  \* treeSitterExtractor.ts
  parserInstance, \* parserInstance !== null
  parserInit,     \* initPromise, "null" or the promise's state
  languageCache,  \* the grammar names that languageCache has a grammar for
  grammarLoads,   \* per grammar name: the calls of Parser.Language.load
  failedLoads,    \* the grammar names for which a load has failed
  extractions,    \* each caller of the extractor: where it stands
  astComments     \* the result of the AST strategy for one document

tvars == <<parserInstance, parserInit, languageCache, grammarLoads,
           failedLoads, extractions, astComments>>

VARIABLES
  \* wikipedia.ts
  cache,          \* cache: the entry of each term, or NoEntry
  now,            \* Date.now()
  lookups,        \* the fetchWikipediaSummary calls: where each stands
  unanswered,     \* the terms whose latest finished lookup got no response
  lastLookup      \* what the most recent step of a lookup did

wvars == <<cache, now, lookups, unanswered, lastLookup>>

VARIABLES
  \* a range handed to the host and read back
  localOffset,    \* the offset given to offsetToPosition
  reported,       \* the position offsetToPosition returned, or NoPosition
  hostOffset      \* what TextDocument.offsetAt made of it, or -1

pvars == <<localOffset, reported, hostOffset>>

cvars == <<tvars, wvars, pvars>>

vars == <<avars, svars, xvars, cvars>>

(***************************************************************************)
(* Bounds of the model.                                                    *)
(***************************************************************************)
MaxTokText    == 2   \* longest text handed to tokenize
MaxWordLen    == 1   \* longest surface of a raw record
MaxTokRecords == 3   \* most raw records in one backend answer

(***************************************************************************)
(* Sequences helpers.                                                      *)
(***************************************************************************)
SeqsUpTo(S, n) == UNION {[1..k -> S] : k \in 0..n}

Min(a, b) == IF a <= b THEN a ELSE b
Max(a, b) == IF a >= b THEN a ELSE b

(***************************************************************************)
(* JavaScript string primitives.                                           *)
(***************************************************************************)
\* s.startsWith-at: word occurs in s at 0-based offset k
OccursAt(s, word, k) ==
  /\ k + Len(word) <= Len(s)
  /\ \A j \in 1..Len(word) : s[k + j] = word[j]

\* String.prototype.indexOf(word, from): the position is clamped to
\* [0, s.length]; the empty string is found at the clamped position; -1 when
\* there is no occurrence at or after it.
IndexOf(s, word, from) ==
  LET start == Min(Max(from, 0), Len(s))
      hits  == {k \in start..Len(s) : OccursAt(s, word, k)}
  IN  IF hits = {} THEN -1
      ELSE CHOOSE k \in hits : \A h \in hits : k <= h

\* String.prototype.slice(start, end) for non-negative arguments
Slice(s, start, end) ==
  LET a == Min(start, Len(s))
      b == Min(end, Len(s))
  IN  IF a >= b THEN <<>> ELSE SubSeq(s, a + 1, b)

(***************************************************************************)
(* Tokenizer adapter: tokenize's loop over the backend's records.          *)
(***************************************************************************)
\* a raw backend record (MecabToken); the interface declares every field
\* a string, so the ?? defaults of tokenize never apply
Raw(word, pos, detail1, conj1, conj2, dict) ==
  [word |-> word, pos |-> pos, pos_detail1 |-> detail1,
   conjugation1 |-> conj1, conjugation2 |-> conj2, dictionary_form |-> dict]

\* a record with no sub-classification, conjugation or separate base form
Plain(word, pos) == Raw(word, pos, "*", "*", "*", word)

\* one Token; the fields the segmenter and the rules read
Token(mt, offset) ==
  [surface         |-> mt.word,
   pos             |-> mt.pos,
   posDetail1      |-> mt.pos_detail1,
   conjugationType |-> mt.conjugation1,
   conjugationForm |-> mt.conjugation2,
   baseForm        |-> mt.dictionary_form,
   offset          |-> offset]

\* offset = tokenStart >= 0 ? tokenStart : currentOffset
TokenOffset(s, word, currentOffset) ==
  LET tokenStart == IndexOf(s, word, currentOffset)
  IN  IF tokenStart >= 0 THEN tokenStart ELSE currentOffset

RECURSIVE TokenizeFrom(_, _, _, _)
TokenizeFrom(s, mecabTokens, currentOffset, acc) ==
  IF mecabTokens = <<>> THEN acc
  ELSE LET mt     == Head(mecabTokens)
           offset == TokenOffset(s, mt.word, currentOffset)
       IN  TokenizeFrom(s, Tail(mecabTokens), offset + Len(mt.word),
                        Append(acc, Token(mt, offset)))

\* tokenize(text) once the backend has answered mecabTokens
Tokenize(s, mecabTokens) == TokenizeFrom(s, mecabTokens, 0, <<>>)

(***************************************************************************)
(* SpecTok: tokenize applied to every bounded text and backend answer.     *)
(***************************************************************************)
TokAlphabet == {12354, 12290}
TokTexts    == SeqsUpTo(TokAlphabet, MaxTokText)
TokWords    == SeqsUpTo(TokAlphabet, MaxWordLen)
TokRecords  == {Plain(w, "Meishi") : w \in TokWords}
TokAnswers  == SeqsUpTo(TokRecords, MaxTokRecords)

NoConfig == [none |-> TRUE]

\* no document is being validated
NoExtract ==
  /\ languageId = "plaintext"
  /\ segments = <<>>
  /\ trace = <<>>
  /\ allDiagnostics = <<>>

\* the AST extractor and the Wikipedia lookups are not part of a
\* specification
NoPosition == [line |-> -1, character |-> -1]

\* no offset is being translated
NoTranslation ==
  /\ localOffset = 0
  /\ reported = NoPosition
  /\ hostOffset = -1

NoComponents ==
  /\ NoTranslation
  /\ parserInstance = FALSE
  /\ parserInit = "null"
  /\ languageCache = {}
  /\ grammarLoads = <<>>
  /\ failedLoads = {}
  /\ extractions = <<>>
  /\ astComments = <<>>
  /\ cache = <<>>
  /\ now = 0
  /\ lookups = <<>>
  /\ unanswered = {}
  /\ lastLookup = [op |-> "none"]

\* the server is not part of the analysis-only specifications
NoServer ==
  /\ mecabInstance = TRUE
  /\ initPromise = "fulfilled"
  /\ loadStarts = 1
  /\ callers = <<>>
  /\ docText = <<>>
  /\ published = <<>>
  /\ passes = <<>>
  /\ lastStep = [op |-> "none"]

InitTok ==
  /\ NoServer
  /\ NoComponents
  /\ NoExtract
  /\ text \in TokTexts
  /\ records \in TokAnswers
  /\ tokens = <<>>
  /\ sentences = <<>>
  /\ diagnostics = <<>>
  /\ config = NoConfig
  /\ pc = "input"

DoTokenize ==
  /\ pc = "input"
  /\ tokens' = Tokenize(text, records)
  /\ pc' = "tokenized"
  /\ UNCHANGED <<text, records, sentences, diagnostics, config, svars, xvars, cvars>>

NextTok == DoTokenize

SpecTok == InitTok /\ [][NextTok]_vars

(***************************************************************************)
(* Claims about tokenize (SpecTok).                                        *)
(***************************************************************************)
\* C1: for every text and every sequence of raw records the backend
\* returns, the tokens returned by tokenize have non-decreasing offsets:
\* tokens[i].offset <= tokens[i+1].offset for all consecutive i.
C1_OffsetsNonDecreasing ==
  pc = "tokenized" =>
    \A i \in 1..(Len(tokens) - 1) : tokens[i].offset <= tokens[i + 1].offset

\* C2: every token returned by tokenize(text) ends inside the text:
\* offset + len(surface) <= len(text), the fallback case included.
C2_TokensWithinText ==
  pc = "tokenized" =>
    \A i \in 1..Len(tokens) :
      tokens[i].offset + Len(tokens[i].surface) <= Len(text)

(***************************************************************************)
(* Sentence segmenter: splitSentences.                                     *)
(***************************************************************************)
\* const sentenceEnders = ['。', '！', '？', '!', '?', '\n']
sentenceEnders ==
  {<<12290>>, <<65281>>, <<65311>>, <<33>>, <<63>>, <<10>>}

\* the mutant of IsSentenceEnd: only tokens tagged as symbol close
IsSentenceEndSymbolOnly(token) ==
  token.pos = "Kigou" /\ token.surface \in sentenceEnders

\* const isSentenceEnd = sentenceEnders.includes(token.surface) ||
\*   (token.pos === '\u8a18\u53f7' && sentenceEnders.includes(token.surface))
IsSentenceEnd(token) ==
  \/ token.surface \in sentenceEnders
  \/ (token.pos = "Kigou" /\ token.surface \in sentenceEnders)

\* the mutant of SentenceEnd: the token's UTF-8 byte length (Token.length,
\* three bytes for each of the sampled code units) in place of surface.length
SentenceEndByteLength(token) == token.offset + 3 * Len(token.surface)

\* const sentenceEnd = token.offset + token.surface.length
SentenceEnd(token) == token.offset + Len(token.surface)

\* the mutant of MakeSentence: the sentence starts at its first token
MakeSentenceAtFirstToken(s, currentStart, currentTokens) ==
  LET sentenceEnd == SentenceEnd(currentTokens[Len(currentTokens)])
  IN  [text   |-> Slice(s, currentTokens[1].offset, sentenceEnd),
       start  |-> currentTokens[1].offset,
       end    |-> sentenceEnd,
       tokens |-> currentTokens]

\* sentences.push({ text: sentenceText, start: currentStart,
\*                  end: sentenceEnd, tokens: currentTokens })
\* where sentenceEnd is the end of the last token of currentTokens
MakeSentence(s, currentStart, currentTokens) ==
  LET sentenceEnd == SentenceEnd(currentTokens[Len(currentTokens)])
  IN  [text   |-> Slice(s, currentStart, sentenceEnd),
       start  |-> currentStart,
       end    |-> sentenceEnd,
       tokens |-> currentTokens]

\* the mutant of Remaining: the trailing buffer is dropped
RemainingDropped(s, currentStart, currentTokens, acc) == acc

\* // Handle remaining text as final sentence
Remaining(s, currentStart, currentTokens, acc) ==
  IF Len(currentTokens) > 0
  THEN Append(acc, MakeSentence(s, currentStart, currentTokens))
  ELSE acc

RECURSIVE SplitFrom(_, _, _, _, _)
SplitFrom(s, toks, currentStart, currentTokens, acc) ==
  IF toks = <<>> THEN Remaining(s, currentStart, currentTokens, acc)
  ELSE LET token  == Head(toks)
           pushed == Append(currentTokens, token)
       IN  IF IsSentenceEnd(token)
           THEN SplitFrom(s, Tail(toks), SentenceEnd(token), <<>>,
                          Append(acc, MakeSentence(s, currentStart, pushed)))
           ELSE SplitFrom(s, Tail(toks), currentStart, pushed, acc)

SplitSentences(s, toks) == SplitFrom(s, toks, 0, <<>>, <<>>)

(***************************************************************************)
(* SpecSent: splitSentences applied to every bounded text and every        *)
(* bounded token sequence with non-decreasing offsets.                     *)
(***************************************************************************)
MaxSentText   == 2   \* longest text handed to splitSentences
MaxSentOffset == 3   \* largest token offset
MaxSentTokens == 3   \* most tokens handed to splitSentences

SentAlphabet == {12354, 12290}
SentTexts    == SeqsUpTo(SentAlphabet, MaxSentText)

\* surface and part of speech of the sampled tokens: a noun, a full stop
\* tagged as symbol, a full stop tagged as noun, and the two-unit symbol
\* "!?" whose surface is not in sentenceEnders
SentLexicon ==
  { Plain(<<12354>>, "Meishi"),
    Plain(<<12290>>, "Kigou"),
    Plain(<<12290>>, "Meishi"),
    Plain(<<33, 63>>, "Kigou") }

SentTokens == {Token(mt, o) : mt \in SentLexicon, o \in 0..MaxSentOffset}

NonDecreasing(toks) ==
  \A i \in 1..(Len(toks) - 1) : toks[i].offset <= toks[i + 1].offset

InitSent ==
  /\ NoServer
  /\ NoComponents
  /\ NoExtract
  /\ text \in SentTexts
  /\ records = <<>>
  /\ tokens \in {t \in SeqsUpTo(SentTokens, MaxSentTokens) : NonDecreasing(t)}
  /\ sentences = <<>>
  /\ diagnostics = <<>>
  /\ config = NoConfig
  /\ pc = "tokenized"

DoSplit ==
  /\ pc = "tokenized"
  /\ sentences' = SplitSentences(text, tokens)
  /\ pc' = "split"
  /\ UNCHANGED <<text, records, tokens, diagnostics, config, svars, xvars, cvars>>

NextSent == DoSplit

SpecSent == InitSent /\ [][NextSent]_vars

(***************************************************************************)
(* Claims about splitSentences (SpecSent).                                 *)
(***************************************************************************)
LastOf(seq) == seq[Len(seq)]

\* the end of the last token of sentence k - 1, and 0 before sentence 1
EndBefore(k) ==
  IF k = 1 THEN 0
  ELSE LET last == LastOf(sentences[k - 1].tokens)
       IN  last.offset + Len(last.surface)

RECURSIVE ConcatTokens(_)
ConcatTokens(ss) ==
  IF ss = <<>> THEN <<>> ELSE Head(ss).tokens \o ConcatTokens(Tail(ss))

\* the terminal set of the specification: 。 ！ ？ ! ? and newline
TerminalSurfaces ==
  {<<12290>>, <<65281>>, <<65311>>, <<33>>, <<63>>, <<10>>}

\* C6: for every token sequence with non-decreasing offsets the sentences
\* are contiguous and non-overlapping: each sentence's end equals its last
\* token's offset + len(surface), and each following sentence's start
\* equals the previous sentence's end.
C6_SentencesContiguous ==
  (pc = "split" /\ NonDecreasing(tokens)) =>
    \A k \in 1..Len(sentences) :
      /\ sentences[k].end =
           LastOf(sentences[k].tokens).offset
             + Len(LastOf(sentences[k].tokens).surface)
      /\ k > 1 => sentences[k].start = sentences[k - 1].end

\* C6 witness: two sentences, the second beginning after uncovered text
C6_Witness ==
  /\ pc = "split"
  /\ Len(sentences) >= 2
  /\ sentences[2].tokens[1].offset > sentences[1].end

\* C7 as claimed: every sentence starts at its first token,
\* start == tokens[0].offset.
C7_StartIsFirstTokenOffset ==
  pc = "split" =>
    \A k \in 1..Len(sentences) :
      sentences[k].start = sentences[k].tokens[1].offset

\* C7 as amended: every sentence starts where the previous sentence's last
\* token ends, and the first sentence at 0; so start == tokens[0].offset
\* holds exactly for the sentences whose first token begins there.
C7_StartIsPreviousEnd ==
  pc = "split" =>
    \A k \in 1..Len(sentences) :
      /\ sentences[k].start = EndBefore(k)
      /\ (sentences[k].start = sentences[k].tokens[1].offset)
           <=> (sentences[k].tokens[1].offset = EndBefore(k))

\* C7 witness: a first sentence whose first token is not at offset 0 and a
\* later sentence that follows characters no token covers
C7_Witness ==
  /\ pc = "split"
  /\ Len(sentences) >= 2
  /\ sentences[1].tokens[1].offset > 0
  /\ sentences[2].tokens[1].offset > EndBefore(2)

\* C8: splitSentences partitions the token sequence: the sentences' tokens
\* concatenated in order are the input tokens, every sentence has at least
\* one token, a trailing run without a terminator is the final sentence,
\* and zero tokens give zero sentences.
C8_SentencesPartitionTokens ==
  pc = "split" =>
    /\ ConcatTokens(sentences) = tokens
    /\ \A k \in 1..Len(sentences) : Len(sentences[k].tokens) >= 1
    /\ (tokens # <<>> /\ LastOf(tokens).surface \notin TerminalSurfaces) =>
         /\ sentences # <<>>
         /\ LastOf(LastOf(sentences).tokens) = LastOf(tokens)
    /\ tokens = <<>> => sentences = <<>>

\* C8 witness: a terminated sentence followed by a trailing run of two
\* tokens without a terminator
C8_Witness ==
  /\ pc = "split"
  /\ Len(sentences) = 2
  /\ Len(sentences[2].tokens) = 2
  /\ LastOf(tokens).surface \notin TerminalSurfaces

\* C9: a token closes the current sentence exactly when its surface is in
\* the terminal set: every sentence except possibly the last ends with a
\* terminal token, and no sentence has a terminal token before its last.
C9_TerminalClosesSentence ==
  pc = "split" =>
    \A k \in 1..Len(sentences) :
      LET toks == sentences[k].tokens
      IN  /\ k < Len(sentences) => LastOf(toks).surface \in TerminalSurfaces
          /\ \A j \in 1..(Len(toks) - 1) :
               toks[j].surface \notin TerminalSurfaces

\* C9 witness: a sentence closed by a full stop that is not tagged as a
\* symbol, holding a symbol token "!?" that did not close it
C9_Witness ==
  /\ pc = "split"
  /\ Len(sentences) >= 2
  /\ LastOf(sentences[1].tokens).pos = "Meishi"
  /\ \E j \in 1..(Len(sentences[1].tokens) - 1) :
       sentences[1].tokens[j].pos = "Kigou"

(***************************************************************************)
(* Grammar rule engine: grammar.ts.                                        *)
(* Tags: "Joshi" particle, "SetsuzokuJoshi" connective particle,           *)
(* "Setsuzokushi" conjunction, "Doushi" verb, "Jiritsu" self-standing,     *)
(* "Ichidan" one-step conjugation, "Mizenkei" stem form, "Setsubi" suffix. *)
(* Base forms: <<12364>> is GA, <<12428, 12427>> is RERU,                  *)
(* <<26469, 12428, 12427>> is KORERU, <<35211, 12428, 12427>> is MIRERU.   *)
(***************************************************************************)
\* for (const char of text): the length in code units of the code point
\* that starts at 0-based index i (a surrogate pair is one char of length 2)
CharLength(s, i) ==
  IF /\ s[i + 1] \in 55296..56319
     /\ i + 2 <= Len(s)
     /\ s[i + 2] \in 56320..57343
  THEN 2 ELSE 1

RECURSIVE OffsetToPositionFrom(_, _, _, _, _)
OffsetToPositionFrom(s, offset, currentOffset, line, character) ==
  IF currentOffset >= Len(s) \/ currentOffset >= offset
  THEN [line |-> line, character |-> character]
  ELSE IF s[currentOffset + 1] = 10
       THEN OffsetToPositionFrom(s, offset,
              currentOffset + CharLength(s, currentOffset), line + 1, 0)
       ELSE OffsetToPositionFrom(s, offset,
              currentOffset + CharLength(s, currentOffset), line,
              character + 1)

\* a translation that keeps counting after the end of the text
offsetToPositionPastEnd(s, offset) ==
  LET p == OffsetToPositionFrom(s, offset, 0, 0, 0)
  IN  IF offset <= Len(s) THEN p
      ELSE [line |-> p.line, character |-> p.character + (offset - Len(s))]

offsetToPosition(s, offset) == OffsetToPositionFrom(s, offset, 0, 0, 0)

isParticle(token) == token.pos = "Joshi"

\* the mutant of isAdversativeGa: any particle with dictionary form ga
isAdversativeGaAnyParticle(token) ==
  /\ token.pos = "Joshi"
  /\ token.baseForm = <<12364>>

isAdversativeGa(token) ==
  /\ token.pos = "Joshi"
  /\ token.posDetail1 = "SetsuzokuJoshi"
  /\ token.baseForm = <<12364>>

isConjunction(token) == token.pos = "Setsuzokushi"

\* the mutant of getParticleKey: the sub-classification is left out
getParticleKeyPosOnly(token) == <<token.pos>>

\* `${token.pos},${token.posDetail1}`: the pair determines the string, and
\* the string the pair, the tags holding no comma
getParticleKey(token) == <<token.pos, token.posDetail1>>

\* the mutant of isTargetVerb: the conjugation form is not looked at
isTargetVerbAnyForm(token) ==
  /\ token.pos = "Doushi"
  /\ token.posDetail1 = "Jiritsu"
  /\ token.conjugationType = "Ichidan"

isTargetVerb(token) ==
  /\ token.pos = "Doushi"
  /\ token.posDetail1 = "Jiritsu"
  /\ token.conjugationType = "Ichidan"
  /\ token.conjugationForm = "Mizenkei"

isRaWord(token) ==
  /\ token.pos = "Doushi"
  /\ token.posDetail1 = "Setsubi"
  /\ token.baseForm = <<12428, 12427>>

isSpecialRaCase(token) ==
  /\ token.pos = "Doushi"
  /\ \/ token.baseForm = <<26469, 12428, 12427>>
     \/ token.baseForm = <<35211, 12428, 12427>>

\* (text.match(/、/g) || []).length
countCommas(s) == Cardinality({i \in 1..Len(s) : s[i] = 12289})

\* one DiagnosticInfo; message holds the values interpolated into the text
Diagnostic(s, startOffset, endOffset, code, message) ==
  [start    |-> offsetToPosition(s, startOffset),
   end      |-> offsetToPosition(s, endOffset),
   message  |-> message,
   severity |-> 2,
   code     |-> code,
   source   |-> "wakame"]

\* the per-sentence results of a rule, concatenated in sentence order
RECURSIVE Concat(_)
Concat(parts) ==
  IF parts = <<>> THEN <<>> ELSE Head(parts) \o Concat(Tail(parts))

\* the mutant of CommaLimitExceeded: >= in place of >
CommaLimitReached(commaCount, limit) == commaCount >= limit

\* if (commaCount > limit)
CommaLimitExceeded(commaCount, limit) == commaCount > limit

\* checkCommaLimit, one sentence
CommaLimitOf(s, sentence, limit) ==
  LET commaCount == countCommas(sentence.text)
  IN  IF CommaLimitExceeded(commaCount, limit)
      THEN <<Diagnostic(s, sentence.start, sentence.end,
               "comma-limit", <<limit, commaCount>>)>>
      ELSE <<>>

\* the mutant of checkCommaLimit: the enable flag is not looked at
checkCommaLimitAlways(s, sents, cfg) ==
  Concat([k \in 1..Len(sents) |->
            CommaLimitOf(s, sents[k], cfg.rules.commaLimitMax)])

checkCommaLimit(s, sents, cfg) ==
  IF ~cfg.rules.commaLimit THEN <<>>
  ELSE Concat([k \in 1..Len(sents) |->
                 CommaLimitOf(s, sents[k], cfg.rules.commaLimitMax)])

\* checkAdversativeGa, one sentence
AdversativeGaOf(s, sentence, maxCount) ==
  LET count == Cardinality({i \in 1..Len(sentence.tokens) :
                              isAdversativeGa(sentence.tokens[i])})
  IN  IF count > maxCount
      THEN <<Diagnostic(s, sentence.start, sentence.end,
               "adversative-ga", <<maxCount + 1, count>>)>>
      ELSE <<>>

checkAdversativeGa(s, sents, cfg) ==
  IF ~cfg.rules.adversativeGa THEN <<>>
  ELSE Concat([k \in 1..Len(sents) |->
                 AdversativeGaOf(s, sents[k], cfg.rules.adversativeGaMax)])

\* the absent lastToken / prevToken of the scanners (null): no token has
\* a negative offset
NullToken == Token(Plain(<<>>, ""), -1)

\* checkDuplicateParticle, one sentence: st is the loop's state
\* (lastSurface, lastKey, lastToken, streak)
RECURSIVE DuplicateParticleScan(_, _, _, _)
DuplicateParticleScan(s, toks, st, acc) ==
  IF toks = <<>> THEN acc
  ELSE LET token == Head(toks) IN
       IF ~isParticle(token)
       THEN DuplicateParticleScan(s, Tail(toks), st, acc)
       ELSE LET currentKey == getParticleKey(token)
                repeat == /\ st.lastToken # NullToken
                          /\ token.surface = st.lastSurface
                          /\ currentKey = st.lastKey
                streak == IF repeat THEN st.streak + 1 ELSE 1
                out == IF repeat /\ streak > 1
                       THEN Append(acc,
                              Diagnostic(s, st.lastToken.offset,
                                token.offset + Len(token.surface),
                                "duplicate-particle", token.surface))
                       ELSE acc
            IN  DuplicateParticleScan(s, Tail(toks),
                  [lastSurface |-> token.surface, lastKey |-> currentKey,
                   lastToken |-> token, streak |-> streak], out)

checkDuplicateParticle(s, sents, cfg) ==
  IF ~cfg.rules.duplicateParticle THEN <<>>
  ELSE Concat([k \in 1..Len(sents) |->
         DuplicateParticleScan(s, sents[k].tokens,
           [lastSurface |-> <<>>, lastKey |-> <<>>,
            lastToken |-> NullToken, streak |-> 1], <<>>)])

\* a mutant of isAdjacent: only a token after a gap counts as adjacent
isAdjacentAfterGap(prevToken, token) ==
  /\ prevToken # NullToken
  /\ token.offset > prevToken.offset + Len(prevToken.surface)

\* the mutant of isAdjacent: a gap between the two tokens is not noticed
isAdjacentIgnoringGap(prevToken, token) == prevToken # NullToken

\* isAdjacent = prevToken &&
\*              token.offset === prevToken.offset + prevToken.surface.length
isAdjacent(prevToken, token) ==
  /\ prevToken # NullToken
  /\ token.offset = prevToken.offset + Len(prevToken.surface)

\* checkAdjacentParticles, one sentence: st is the loop's state
\* (prevIsParticle, prevKey, prevToken, streak)
RECURSIVE AdjacentParticlesScan(_, _, _, _)
AdjacentParticlesScan(s, toks, st, acc) ==
  IF toks = <<>> THEN acc
  ELSE LET token == Head(toks)
           currentIsParticle == isParticle(token)
           currentKey == getParticleKey(token)
           hit == /\ currentIsParticle
                  /\ st.prevIsParticle
                  /\ currentKey = st.prevKey
                  /\ isAdjacent(st.prevToken, token)
           streak == IF hit THEN st.streak + 1 ELSE 1
           out == IF hit /\ streak > 1 /\ st.prevToken # NullToken
                  THEN Append(acc,
                         Diagnostic(s, st.prevToken.offset,
                           token.offset + Len(token.surface),
                           "adjacent-particles", <<>>))
                  ELSE acc
       IN  AdjacentParticlesScan(s, Tail(toks),
             [prevIsParticle |-> currentIsParticle,
              prevKey   |-> IF currentIsParticle THEN currentKey
                            ELSE st.prevKey,
              prevToken |-> IF currentIsParticle THEN token
                            ELSE st.prevToken,
              streak    |-> streak], out)

checkAdjacentParticles(s, sents, cfg) ==
  IF ~cfg.rules.adjacentParticles THEN <<>>
  ELSE Concat([k \in 1..Len(sents) |->
         AdjacentParticlesScan(s, sents[k].tokens,
           [prevIsParticle |-> FALSE, prevKey |-> <<>>,
            prevToken |-> NullToken, streak |-> 1], <<>>)])

\* allTokens.push(...sentence.tokens) for every sentence
RECURSIVE AllTokens(_)
AllTokens(sents) ==
  IF sents = <<>> THEN <<>> ELSE Head(sents).tokens \o AllTokens(Tail(sents))

\* the mutant of IncludesNewline: a newline is never seen
IncludesNewlineNever(s) == FALSE

\* String.prototype.includes('\n')
IncludesNewline(s) == \E i \in 1..Len(s) : s[i] = 10

\* checkConjunctionRepeat over the flattened tokens: st is the loop's state
\* (lastSurface, lastToken, streak)
RECURSIVE ConjunctionRepeatScan(_, _, _, _)
ConjunctionRepeatScan(s, toks, st, acc) ==
  IF toks = <<>> THEN acc
  ELSE LET token == Head(toks) IN
       IF ~isConjunction(token)
       THEN ConjunctionRepeatScan(s, Tail(toks), st, acc)
       ELSE LET separatedByNewline ==
                  /\ st.lastToken # NullToken
                  /\ IncludesNewline(
                       Slice(s, st.lastToken.offset
                                  + Len(st.lastToken.surface),
                             token.offset))
                repeat == /\ st.lastToken # NullToken
                          /\ token.surface = st.lastSurface
                          /\ ~separatedByNewline
                streak == IF repeat THEN st.streak + 1 ELSE 1
                out == IF repeat /\ streak > 1
                       THEN Append(acc,
                              Diagnostic(s, st.lastToken.offset,
                                token.offset + Len(token.surface),
                                "conjunction-repeat", token.surface))
                       ELSE acc
            IN  ConjunctionRepeatScan(s, Tail(toks),
                  [lastSurface |-> token.surface, lastToken |-> token,
                   streak |-> streak], out)

checkConjunctionRepeat(s, sents, cfg) ==
  IF ~cfg.rules.conjunctionRepeat THEN <<>>
  ELSE ConjunctionRepeatScan(s, AllTokens(sents),
         [lastSurface |-> <<>>, lastToken |-> NullToken, streak |-> 1],
         <<>>)

\* checkRaDropping, first loop of a sentence: the single-token cases
RECURSIVE SpecialRaScan(_, _, _)
SpecialRaScan(s, toks, acc) ==
  IF toks = <<>> THEN acc
  ELSE LET token == Head(toks) IN
       SpecialRaScan(s, Tail(toks),
         IF isSpecialRaCase(token)
         THEN Append(acc, Diagnostic(s, token.offset,
                            token.offset + Len(token.surface),
                            "ra-dropping", <<>>))
         ELSE acc)

\* checkRaDropping, second loop of a sentence: verb stem + suffix
RECURSIVE RaBigramScan(_, _, _, _)
RaBigramScan(s, toks, prevToken, acc) ==
  IF toks = <<>> THEN acc
  ELSE LET token == Head(toks) IN
       RaBigramScan(s, Tail(toks), token,
         IF prevToken # NullToken /\ isTargetVerb(prevToken)
              /\ isRaWord(token)
         THEN Append(acc, Diagnostic(s, prevToken.offset,
                            token.offset + Len(token.surface),
                            "ra-dropping", <<>>))
         ELSE acc)

checkRaDropping(s, sents, cfg) ==
  IF ~cfg.rules.raDropping THEN <<>>
  ELSE Concat([k \in 1..Len(sents) |->
         SpecialRaScan(s, sents[k].tokens, <<>>)
           \o RaBigramScan(s, sents[k].tokens, NullToken, <<>>)])

\* the mutant of checkGrammar: ra-dropping is run first
checkGrammarRaDroppingFirst(s, sents, cfg) ==
  checkRaDropping(s, sents, cfg)
    \o checkCommaLimit(s, sents, cfg)
    \o checkAdversativeGa(s, sents, cfg)
    \o checkDuplicateParticle(s, sents, cfg)
    \o checkAdjacentParticles(s, sents, cfg)
    \o checkConjunctionRepeat(s, sents, cfg)

checkGrammar(s, sents, cfg) ==
  checkCommaLimit(s, sents, cfg)
    \o checkAdversativeGa(s, sents, cfg)
    \o checkDuplicateParticle(s, sents, cfg)
    \o checkAdjacentParticles(s, sents, cfg)
    \o checkConjunctionRepeat(s, sents, cfg)
    \o checkRaDropping(s, sents, cfg)

(***************************************************************************)
(* SpecAnalyze: one analysis of one segment, as validateTextDocument runs  *)
(* it: analyze(text) = tokenize ; splitSentences, then checkGrammar, for   *)
(* every bounded text, backend answer and rule configuration.              *)
(***************************************************************************)
MaxAnText     == 4   \* longest analysed text
MaxAnRecords  == 3   \* most raw records in one backend answer
MaxCommaLimit == 1   \* largest configured commaLimitMax

AnAlphabet == {12354, 12289, 12290}
AnTexts    == SeqsUpTo(AnAlphabet, MaxAnText)

AnLexicon ==
  { Plain(<<12354>>, "Meishi"),
    Plain(<<12289>>, "Kigou"),
    Plain(<<12290>>, "Kigou") }

AnAnswers == SeqsUpTo(AnLexicon, MaxAnRecords)

\* the rules section of the configuration; the other rules as in
\* defaultConfig
RulesConfig(commaLimit, commaLimitMax) ==
  [rules |-> [commaLimit        |-> commaLimit,
              commaLimitMax     |-> commaLimitMax,
              adversativeGa     |-> TRUE,
              adversativeGaMax  |-> 1,
              duplicateParticle |-> TRUE,
              adjacentParticles |-> TRUE,
              conjunctionRepeat |-> TRUE,
              raDropping        |-> TRUE]]

AnConfigs ==
  {RulesConfig(on, m) : on \in BOOLEAN, m \in 0..MaxCommaLimit}

InitAnalyze ==
  /\ NoServer
  /\ NoComponents
  /\ NoExtract
  /\ text \in AnTexts
  /\ records \in AnAnswers
  /\ tokens = <<>>
  /\ sentences = <<>>
  /\ diagnostics = <<>>
  /\ config = NoConfig
  /\ pc = "input"

DoCheckGrammar ==
  /\ pc = "split"
  /\ \E cfg \in AnConfigs :
       /\ config' = cfg
       /\ diagnostics' = checkGrammar(text, sentences, cfg)
  /\ pc' = "checked"
  /\ UNCHANGED <<text, records, tokens, sentences, svars, xvars, cvars>>

NextAnalyze == DoTokenize \/ DoSplit \/ DoCheckGrammar

SpecAnalyze == InitAnalyze /\ [][NextAnalyze]_vars

(***************************************************************************)
(* Claims about checkGrammar (SpecAnalyze).                                *)
(***************************************************************************)
\* the diagnostics of one rule, in the order checkGrammar returned them
DiagnosticsOf(code) ==
  {i \in 1..Len(diagnostics) : diagnostics[i].code = code}

\* the number of Japanese commas (U+3001) in a string
Commas(s) == Cardinality({i \in 1..Len(s) : s[i] = 12289})

\* C10: with comma-limit enabled, checkGrammar emits exactly one
\* comma-limit diagnostic for each sentence whose text contains more than
\* commaLimitMax Japanese commas and none for any other sentence; the
\* diagnostic spans the sentence from its start to its end.
C10_CommaLimitPerSentence ==
  (pc = "checked" /\ config.rules.commaLimit) =>
    LET over == {k \in 1..Len(sentences) :
                   Commas(sentences[k].text) > config.rules.commaLimitMax}
    IN  /\ Cardinality(DiagnosticsOf("comma-limit")) = Cardinality(over)
        /\ \A k \in 1..Len(sentences) :
             Cardinality({i \in DiagnosticsOf("comma-limit") :
                /\ diagnostics[i].start =
                     offsetToPosition(text, sentences[k].start)
                /\ diagnostics[i].end =
                     offsetToPosition(text, sentences[k].end)})
               = IF k \in over THEN 1 ELSE 0

\* C10 witness: two sentences, the first with more commas than the limit
\* and diagnosed, the second with exactly the limit and not diagnosed
C10_Witness ==
  /\ pc = "checked"
  /\ config.rules.commaLimit
  /\ config.rules.commaLimitMax = 1
  /\ Len(sentences) = 2
  /\ Commas(sentences[1].text) = 2
  /\ Commas(sentences[2].text) = 1
  /\ Cardinality(DiagnosticsOf("comma-limit")) = 1

(***************************************************************************)
(* SpecRules: the rules of checkGrammar on texts made of dictionary words. *)
(* An input is a script: a sequence of pieces, each a word the backend     *)
(* reports or a run of white space it skips.  The text is the pieces       *)
(* written one after the other, the backend's answer the reported ones,    *)
(* and the pipeline is the one of validateTextDocument:                    *)
(* tokenize ; splitSentences ; checkGrammar.                               *)
(***************************************************************************)
MaxRuleScript == 4   \* most pieces in one script
MaxGaLimit    == 1   \* largest configured adversativeGaMax

\* ga as connective particle (the adversative ga), ga and wo as case
\* particles
GaSetsuzoku ==
  Raw(<<12364>>, "Joshi", "SetsuzokuJoshi", "*", "*", <<12364>>)
GaKaku == Raw(<<12364>>, "Joshi", "KakuJoshi", "*", "*", <<12364>>)
WoKaku == Raw(<<12434>>, "Joshi", "KakuJoshi", "*", "*", <<12434>>)

\* a noun, the full stop, and the Japanese comma
NounA  == Plain(<<12354>>, "Meishi")
Kuten  == Plain(<<12290>>, "Kigou")
Touten == Plain(<<12289>>, "Kigou")

\* white space: present in the text, absent from the backend's answer
SpaceGap   == Plain(<<32>>, "Gap")
NewlineGap == Plain(<<10>>, "Gap")

\* de and ga as conjunctions
DeConj == Plain(<<12391>>, "Setsuzokushi")
GaConj == Plain(<<12364>>, "Setsuzokushi")

\* kore (stem of koreru), mi (stem and continuative form of miru), and the
\* suffixes reru and rareru
KoreMizen ==
  Raw(<<26469, 12428>>, "Doushi", "Jiritsu", "Ichidan", "Mizenkei",
      <<26469, 12428, 12427>>)
MiMizen ==
  Raw(<<35211>>, "Doushi", "Jiritsu", "Ichidan", "Mizenkei",
      <<35211, 12427>>)
MiRenyou ==
  Raw(<<35211>>, "Doushi", "Jiritsu", "Ichidan", "Renyoukei",
      <<35211, 12427>>)
Reru ==
  Raw(<<12428, 12427>>, "Doushi", "Setsubi", "Ichidan", "Kihonkei",
      <<12428, 12427>>)
Rareru ==
  Raw(<<12425, 12428, 12427>>, "Doushi", "Setsubi", "Ichidan", "Kihonkei",
      <<12425, 12428, 12427>>)

ParticlePieces == {GaSetsuzoku, GaKaku, WoKaku, NounA, Kuten, SpaceGap}
ConjPieces     == {DeConj, GaConj, NounA, Kuten, NewlineGap}
RaPieces       == {KoreMizen, MiMizen, MiRenyou, Reru, Rareru, Kuten}

RuleScripts ==
  SeqsUpTo(ParticlePieces, MaxRuleScript)
    \cup SeqsUpTo(ConjPieces, MaxRuleScript)
    \cup SeqsUpTo(RaPieces, MaxRuleScript)

\* the text of a script, and what the backend answers for it
ScriptText(script) == Concat([i \in 1..Len(script) |-> script[i].word])
ScriptRecords(script) == SelectSeq(script, LAMBDA r : r.pos # "Gap")

\* the codes of the six rules, in the order of checkGrammar
RuleCodes ==
  <<"comma-limit", "adversative-ga", "duplicate-particle",
    "adjacent-particles", "conjunction-repeat", "ra-dropping">>

\* the rules section of a configuration with the rules in on enabled
FlagsConfig(on, commaLimitMax, adversativeGaMax) ==
  [rules |-> [commaLimit        |-> "comma-limit" \in on,
              commaLimitMax     |-> commaLimitMax,
              adversativeGa     |-> "adversative-ga" \in on,
              adversativeGaMax  |-> adversativeGaMax,
              duplicateParticle |-> "duplicate-particle" \in on,
              adjacentParticles |-> "adjacent-particles" \in on,
              conjunctionRepeat |-> "conjunction-repeat" \in on,
              raDropping        |-> "ra-dropping" \in on]]

AllRules == {RuleCodes[i] : i \in 1..Len(RuleCodes)}

\* defaultConfig with the adversative-ga maximum chosen by the client
RuleConfigs == {FlagsConfig(AllRules, 3, m) : m \in 0..MaxGaLimit}

InitScript(scripts) ==
  /\ NoServer
  /\ NoComponents
  /\ NoExtract
  /\ \E script \in scripts :
       /\ text = ScriptText(script)
       /\ records = ScriptRecords(script)
  /\ tokens = <<>>
  /\ sentences = <<>>
  /\ diagnostics = <<>>
  /\ config = NoConfig
  /\ pc = "input"

InitRules == InitScript(RuleScripts)

\* checkGrammar(segment.text, sentences, config), config being one of cfgs
CheckGrammarWith(cfgs) ==
  /\ pc = "split"
  /\ \E cfg \in cfgs :
       /\ config' = cfg
       /\ diagnostics' = checkGrammar(text, sentences, cfg)
  /\ pc' = "checked"
  /\ UNCHANGED <<text, records, tokens, sentences, svars, xvars, cvars>>

DoCheckRules == CheckGrammarWith(RuleConfigs)

NextRules == DoTokenize \/ DoSplit \/ DoCheckRules

SpecRules == InitRules /\ [][NextRules]_vars

(***************************************************************************)
(* Claims about the single rules (SpecRules).                              *)
(***************************************************************************)
\* the span of a diagnostic over the offsets a..b of the text
Span(a, b) == <<offsetToPosition(text, a), offsetToPosition(text, b)>>

\* the spans of the diagnostics of one rule, in the order returned
SpanSeq(code) ==
  LET ds == SelectSeq(diagnostics, LAMBDA d : d.code = code)
  IN  [i \in 1..Len(ds) |-> <<ds[i].start, ds[i].end>>]

\* the end of a token
EndOf(token) == token.offset + Len(token.surface)

\* the number of adversative ga in sentence k: particles sub-classified as
\* connective particle with dictionary form ga
GaCount(k) ==
  Cardinality({i \in 1..Len(sentences[k].tokens) :
     /\ sentences[k].tokens[i].pos = "Joshi"
     /\ sentences[k].tokens[i].posDetail1 = "SetsuzokuJoshi"
     /\ sentences[k].tokens[i].baseForm = <<12364>>})

\* C11: with adversative-ga enabled, checkGrammar emits exactly one
\* adversative-ga diagnostic, spanning the whole sentence, for each
\* sentence with more than adversativeGaMax adversative ga, and none for
\* any other sentence
C11_AdversativeGaPerSentence ==
  (pc = "checked" /\ config.rules.adversativeGa) =>
    SpanSeq("adversative-ga") =
      Concat([k \in 1..Len(sentences) |->
                IF GaCount(k) > config.rules.adversativeGaMax
                THEN <<Span(sentences[k].start, sentences[k].end)>>
                ELSE <<>>])

\* two sentences, the first with two adversative ga and diagnosed under
\* the maximum of 1, the second with one adversative ga and not diagnosed
C11_Witness ==
  /\ pc = "checked"
  /\ config.rules.adversativeGaMax = 1
  /\ Len(sentences) = 2
  /\ GaCount(1) = 2
  /\ GaCount(2) = 1
  /\ SpanSeq("adversative-ga") = <<Span(0, sentences[1].end)>>

\* the particles of sentence k, in order
ParticlesOf(k) == SelectSeq(sentences[k].tokens, LAMBDA t : t.pos = "Joshi")

\* p and q have the same (POS, POS-detail-1) key
SameKey(p, q) == p.pos = q.pos /\ p.posDetail1 = q.posDetail1

\* C12: within a sentence, duplicate-particle emits one diagnostic for
\* every particle whose surface and key equal those of the particle before
\* it in the sentence's particle-only subsequence, spanning from the start
\* of the previous particle to the end of the current one
C12_DuplicateParticleStreak ==
  (pc = "checked" /\ config.rules.duplicateParticle) =>
    SpanSeq("duplicate-particle") =
      Concat([k \in 1..Len(sentences) |->
        LET ps == ParticlesOf(k) IN
        Concat([j \in 1..(Len(ps) - 1) |->
          IF ps[j + 1].surface = ps[j].surface /\ SameKey(ps[j], ps[j + 1])
          THEN <<Span(ps[j].offset, EndOf(ps[j + 1]))>>
          ELSE <<>>])])

\* a particle, a noun and the same particle again: the noun in between
\* does not end the streak, and the diagnostic spans all three
C12_Witness ==
  /\ pc = "checked"
  /\ Len(sentences) = 1
  /\ Len(sentences[1].tokens) = 3
  /\ sentences[1].tokens[1].pos = "Joshi"
  /\ sentences[1].tokens[2].pos = "Meishi"
  /\ sentences[1].tokens[3] =
       [sentences[1].tokens[1] EXCEPT !.offset = 2]
  /\ SpanSeq("duplicate-particle") = <<Span(0, 3)>>

\* C13: within a sentence, adjacent-particles emits a diagnostic for a
\* token exactly when it and the token immediately before it are both
\* particles with the same key and it begins where the other ends; the
\* span runs from the first token's start to the second token's end
C13_AdjacentParticles ==
  (pc = "checked" /\ config.rules.adjacentParticles) =>
    SpanSeq("adjacent-particles") =
      Concat([k \in 1..Len(sentences) |->
        LET ts == sentences[k].tokens IN
        Concat([i \in 1..(Len(ts) - 1) |->
          IF /\ ts[i].pos = "Joshi"
             /\ ts[i + 1].pos = "Joshi"
             /\ SameKey(ts[i], ts[i + 1])
             /\ ts[i + 1].offset = EndOf(ts[i])
          THEN <<Span(ts[i].offset, EndOf(ts[i + 1]))>>
          ELSE <<>>])])

\* two case particles of different surface side by side are flagged, and
\* a third one of the same key after a space is not
C13_Witness ==
  /\ pc = "checked"
  /\ Len(sentences) = 1
  /\ Len(sentences[1].tokens) = 2
  /\ text = <<12364, 12434>>
  /\ SameKey(sentences[1].tokens[1], sentences[1].tokens[2])
  /\ SpanSeq("adjacent-particles") = <<Span(0, 2)>>

\* the conjunctions of all sentences, in order
Conjunctions ==
  SelectSeq(Concat([k \in 1..Len(sentences) |-> sentences[k].tokens]),
            LAMBDA t : t.pos = "Setsuzokushi")

\* the text from offset a up to offset b holds a newline
NewlineBetween(a, b) ==
  \E i \in (a + 1)..b : i \in 1..Len(text) /\ text[i] = 10

\* C14: conjunction-repeat emits a diagnostic for a conjunction exactly
\* when the conjunction before it, in this or an earlier sentence, has the
\* same surface and no newline lies in the text between the two
C14_ConjunctionRepeat ==
  (pc = "checked" /\ config.rules.conjunctionRepeat) =>
    SpanSeq("conjunction-repeat") =
      LET cs == Conjunctions IN
      Concat([j \in 1..(Len(cs) - 1) |->
        IF /\ cs[j + 1].surface = cs[j].surface
           /\ ~NewlineBetween(EndOf(cs[j]), cs[j + 1].offset)
        THEN <<Span(cs[j].offset, EndOf(cs[j + 1]))>>
        ELSE <<>>])

\* the same conjunction closes one sentence's neighbourhood and opens the
\* next: a full stop lies between the two and the repeat is reported
C14_Witness ==
  /\ pc = "checked"
  /\ Len(sentences) = 2
  /\ Len(Conjunctions) = 2
  /\ Conjunctions[1].surface = Conjunctions[2].surface
  /\ Conjunctions[2].offset = sentences[2].start
  /\ Len(SpanSeq("conjunction-repeat")) = 1

\* the number of times x occurs in the sequence q
Count(q, x) == Cardinality({i \in 1..Len(q) : q[i] = x})

\* the spans of the single tokens of sentence k whose dictionary form is
\* koreru or mireru
SpecialRaSpans(k) ==
  LET ts == sentences[k].tokens IN
  Concat([i \in 1..Len(ts) |->
    IF ts[i].baseForm \in {<<26469, 12428, 12427>>, <<35211, 12428, 12427>>}
    THEN <<Span(ts[i].offset, EndOf(ts[i]))>>
    ELSE <<>>])

\* the spans of the pairs of sentence k: a self-standing one-step verb in
\* stem form followed by the suffix reru
RaBigramSpans(k) ==
  LET ts == sentences[k].tokens IN
  Concat([i \in 1..(Len(ts) - 1) |->
    IF /\ ts[i].pos = "Doushi"
       /\ ts[i].posDetail1 = "Jiritsu"
       /\ ts[i].conjugationType = "Ichidan"
       /\ ts[i].conjugationForm = "Mizenkei"
       /\ ts[i + 1].pos = "Doushi"
       /\ ts[i + 1].posDetail1 = "Setsubi"
       /\ ts[i + 1].baseForm = <<12428, 12427>>
    THEN <<Span(ts[i].offset, EndOf(ts[i + 1]))>>
    ELSE <<>>])

PosLeq(p, q) ==
  \/ p.line < q.line
  \/ p.line = q.line /\ p.character <= q.character

\* C17: within each rule the diagnostics are in token scan order: of two
\* diagnostics of the same rule, the one triggered by the earlier token,
\* which is the one that ends earlier in the text, is listed first
C17_WithinRuleScanOrder ==
  pc = "checked" =>
    \A i, j \in 1..Len(diagnostics) :
      (i < j /\ diagnostics[i].code = diagnostics[j].code) =>
        PosLeq(diagnostics[i].end, diagnostics[j].end)

(***************************************************************************)
(* SpecFlags: checkGrammar under every combination of the six enable       *)
(* flags, on scripts whose words trigger every rule.  The limits are 0, so *)
(* one comma and one adversative ga are already over the limit.            *)
(***************************************************************************)
MaxFlagScript == 3   \* most pieces in one script

FlagPieces == {Touten, GaSetsuzoku, DeConj, KoreMizen, Kuten}

FlagScripts == SeqsUpTo(FlagPieces, MaxFlagScript)

FlagConfigs == {FlagsConfig(on, 0, 0) : on \in SUBSET AllRules}

InitFlags == InitScript(FlagScripts)

DoCheckFlags == CheckGrammarWith(FlagConfigs)

NextFlags == DoTokenize \/ DoSplit \/ DoCheckFlags

SpecFlags == InitFlags /\ [][NextFlags]_vars

(***************************************************************************)
(* Claims about checkGrammar as a whole (SpecFlags).                       *)
(***************************************************************************)
\* the place of a rule in the fixed order
Rank(code) == CHOOSE r \in 1..Len(RuleCodes) : RuleCodes[r] = code

\* C16: the sequence returned by checkGrammar is the concatenation of the
\* rules' outputs in the order comma-limit, adversative-ga,
\* duplicate-particle, adjacent-particles, conjunction-repeat, ra-dropping:
\* no diagnostic of a later rule precedes a diagnostic of an earlier rule
C16_RulesInFixedOrder ==
  pc = "checked" =>
    /\ \A i \in 1..Len(diagnostics) : diagnostics[i].code \in AllRules
    /\ \A i, j \in 1..Len(diagnostics) :
         i < j => Rank(diagnostics[i].code) <= Rank(diagnostics[j].code)

\* a ra-dropping diagnostic in the first sentence is listed after the
\* comma-limit diagnostic of the second sentence
C16_Witness ==
  /\ pc = "checked"
  /\ Len(sentences) = 2
  /\ \E i, j \in 1..Len(diagnostics) :
       /\ i < j
       /\ diagnostics[i].code = "comma-limit"
       /\ diagnostics[j].code = "ra-dropping"
       /\ diagnostics[i].start = offsetToPosition(text, sentences[2].start)
       /\ diagnostics[j].end = offsetToPosition(text, sentences[1].end - 1)

\* the rules a configuration enables
Enabled(cfg) ==
  {c \in AllRules :
     \/ c = "comma-limit" /\ cfg.rules.commaLimit
     \/ c = "adversative-ga" /\ cfg.rules.adversativeGa
     \/ c = "duplicate-particle" /\ cfg.rules.duplicateParticle
     \/ c = "adjacent-particles" /\ cfg.rules.adjacentParticles
     \/ c = "conjunction-repeat" /\ cfg.rules.conjunctionRepeat
     \/ c = "ra-dropping" /\ cfg.rules.raDropping}

\* cfg with the flag of one more rule set
WithRule(cfg, code) ==
  FlagsConfig(Enabled(cfg) \cup {code}, cfg.rules.commaLimitMax,
              cfg.rules.adversativeGaMax)

\* C18: each rule is independently skippable: with a rule's flag false,
\* checkGrammar returns the result it returns with that flag true and all
\* else equal, less the diagnostics of that rule's code, the others in
\* unchanged order; with all six flags false it returns the empty sequence
C18_RulesSkippable ==
  pc = "checked" =>
    /\ \A code \in AllRules \ Enabled(config) :
         diagnostics =
           SelectSeq(checkGrammar(text, sentences, WithRule(config, code)),
                     LAMBDA d : d.code # code)
    /\ Enabled(config) = {} => diagnostics = <<>>

\* adjacent-particles alone is switched off for a text with two adversative
\* ga: the diagnostics of adversative-ga and duplicate-particle remain, and
\* with the flag on there is one more
C18_Witness ==
  /\ pc = "checked"
  /\ Enabled(config) = AllRules \ {"adjacent-particles"}
  /\ Len(diagnostics) = 2
  /\ diagnostics[1].code = "adversative-ga"
  /\ diagnostics[2].code = "duplicate-particle"
  /\ Len(checkGrammar(text, sentences,
                      WithRule(config, "adjacent-particles"))) = 3

(***************************************************************************)
(* The language server: tokenizer initialisation (mecabAnalyzer.ts; the    *)
(* kuromoji variant, analyzer.ts initializeTokenizer, has the same shape)  *)
(* and document validation (server.ts).                                    *)
(*                                                                         *)
(* JavaScript runs each handler to its next await without interleaving,    *)
(* so an action is one such run.  Documents are prose documents            *)
(* (languageId plaintext), for which getAnalyzableText yields the whole    *)
(* text as one segment at offset 0.                                        *)
(***************************************************************************)
NumCallers == 2   \* callers of initializeMecab
MaxPasses  == 1   \* validateTextDocument calls in flight at once

Callers == 1..NumCallers
Passes  == 1..MaxPasses
Docs    == {"doc1", "doc2"}

\* sampled document texts: two commas and a full stop, and a text without
\* any Japanese character
DocTexts == {<<12289, 12289, 12290>>, <<97>>}

\* sampled backend answers
DocAnswers ==
  { <<>>,
    <<Plain(<<12289>>, "Kigou"), Plain(<<12289>>, "Kigou"),
      Plain(<<12290>>, "Kigou")>> }

\* the configuration snapshot of one pass: defaultConfig with the enable
\* flag, the minimum severity and the comma limit chosen by the client
DocConfig(enable, warningMinSeverity) ==
  [enable             |-> enable,
   minJapaneseRatio   |-> [num |-> 1, den |-> 10],
   warningMinSeverity |-> warningMinSeverity,
   rules              |-> RulesConfig(TRUE, 1).rules]

DocConfigs == {DocConfig(e, m) : e \in BOOLEAN, m \in {1, 2}}

\* what one handler run did: the readiness it saw, whether it threw, how
\* often it called tokenize and the backend, whether it sent diagnostics
Step(op, ready, threw, tokenizeCalls, queries, sent) ==
  [op |-> op, ready |-> ready, threw |-> threw,
   tokenizeCalls |-> tokenizeCalls, queries |-> queries, sent |-> sent]

\* isMecabReady() / isTokenizerReady()
isMecabReady(instance) == instance

\* a slot that is joined only while its operation is pending
JoinsInFlightWhilePending(promise) == promise = "pending"

\* the mutant of JoinsInFlight: the in-flight slot is never consulted
JoinsInFlightNever(promise) == FALSE

\* initializeMecab: if (initPromise) { await initPromise; return; }
JoinsInFlight(promise) == promise # "null"

\* the mutant of TokenizeCall: no readiness check, so the failing
\* mecabInstance.query is caught by mecabTokenize and [] comes back
TokenizeCallUnguarded(instance, s, answer, queryThrows) ==
  IF ~instance
  THEN [threw |-> FALSE, queries |-> 0, tokens |-> <<>>]
  ELSE [threw |-> FALSE, queries |-> 1,
        tokens |-> Tokenize(s, IF queryThrows THEN <<>> ELSE answer)]

\* tokenize(text): throws unless isMecabReady(); mecabTokenize calls
\* mecabInstance.query(text) once and turns an exception of it into []
TokenizeCall(instance, s, answer, queryThrows) ==
  IF ~isMecabReady(instance)
  THEN [threw |-> TRUE, queries |-> 0, tokens |-> <<>>]
  ELSE [threw |-> FALSE, queries |-> 1,
        tokens |-> Tokenize(s, IF queryThrows THEN <<>> ELSE answer)]

\* JAPANESE_REGEX: hiragana U+3040-309F, katakana U+30A0-30FF, kanji
\* U+4E00-9FFF, CJK symbols and punctuation U+3000-303F
IsJapanese(u) ==
  \/ u \in 12352..12447
  \/ u \in 12448..12543
  \/ u \in 19968..40959
  \/ u \in 12288..12351

\* calculateJapaneseRatio(text) < minJapaneseRatio, the ratio being
\* matches.length / text.length, and 0 for the empty text
RatioBelow(s, minRatio) ==
  LET matches == Cardinality({i \in 1..Len(s) : IsJapanese(s[i])})
  IN  IF Len(s) = 0 THEN 0 < minRatio.num
      ELSE matches * minRatio.den < minRatio.num * Len(s)

\* calculateJapaneseRatio(text) > minRatio
RatioAbove(s, minRatio) ==
  LET matches == Cardinality({i \in 1..Len(s) : IsJapanese(s[i])})
  IN  Len(s) > 0 /\ matches * minRatio.den > minRatio.num * Len(s)

\* the line terminators of a regular expression: . does not match them,
\* and with the m flag $ matches in front of them
IsLineTerminator(u) == u \in {10, 13, 8232, 8233}

\* \s of a regular expression
IsSpace(u) ==
  \/ u \in {9, 10, 11, 12, 13, 32, 160, 5760, 8232, 8233, 8239, 8287,
             12288, 65279}
  \/ u \in 8192..8202

\* where (.*)$ ends when it starts at offset from: the end of the line
LineEnd(s, from) ==
  LET ends == {e \in from..Len(s) :
                 e = Len(s) \/ IsLineTerminator(s[e + 1])}
  IN  CHOOSE e \in ends : \A x \in ends : e <= x

\* the matches of /marker(.*)$/gm from lastIndex on, as regex.exec in a
\* loop finds them
RECURSIVE LineMatches(_, _, _, _)
LineMatches(s, marker, lastIndex, acc) ==
  LET index == IndexOf(s, marker, lastIndex) IN
  IF index < 0 THEN acc
  ELSE LET end == LineEnd(s, index + Len(marker))
       IN  LineMatches(s, marker, end,
             Append(acc, [index |-> index,
                          original |-> Slice(s, index, end)]))

\* the matches of /open[\s\S]*?close/g from lastIndex on: the first open
\* marker that has a close marker behind it, up to the nearest one
RECURSIVE BlockMatches(_, _, _, _, _)
BlockMatches(s, open, close, lastIndex, acc) ==
  LET index == IndexOf(s, open, lastIndex) IN
  IF index < 0 THEN acc
  ELSE LET closeAt == IndexOf(s, close, index + Len(open)) IN
       IF closeAt < 0 THEN acc
       ELSE BlockMatches(s, open, close, closeAt + Len(close),
              Append(acc, [index |-> index,
                           original |->
                             Slice(s, index, closeAt + Len(close))]))

\* s.replace(/^marker\s*/, '')
StripLeading(s, marker) ==
  IF ~OccursAt(s, marker, 0) THEN s
  ELSE LET rest == {k \in Len(marker)..Len(s) :
                      k = Len(s) \/ ~IsSpace(s[k + 1])}
       IN  Slice(s, CHOOSE k \in rest : \A x \in rest : k <= x, Len(s))

\* s.replace(/\s*marker$/, '')
StripTrailing(s, marker) ==
  IF Len(s) < Len(marker) \/ ~OccursAt(s, marker, Len(s) - Len(marker))
  THEN s
  ELSE LET m == Len(s) - Len(marker)
           starts == {k \in 0..m : \A j \in (k + 1)..m : IsSpace(s[j])}
       IN  Slice(s, 0, CHOOSE k \in starts : \A x \in starts : k <= x)

\* extractComments: the chain of replacements that removes the markers
RemoveMarkers(original) ==
  LET r1  == StripLeading(original, <<47, 47>>)
      r2  == StripLeading(r1, <<47, 42>>)
      r3  == StripTrailing(r2, <<42, 47>>)
      r4  == StripLeading(r3, <<35>>)
      r5  == StripLeading(r4, <<37>>)
      r6  == StripLeading(r5, <<60, 33, 45, 45>>)
      r7  == StripTrailing(r6, <<45, 45, 62>>)
      r8  == StripLeading(r7, <<39, 39, 39>>)
      r9  == StripTrailing(r8, <<39, 39, 39>>)
      r10 == StripLeading(r9, <<34, 34, 34>>)
  IN  StripTrailing(r10, <<34, 34, 34>>)

\* the comment patterns of the C-like languages and of python
CLikeLanguages ==
  {"javascript", "typescript", "javascriptreact", "typescriptreact",
   "rust", "c", "cpp"}

\* the matches of all patterns of a language, pattern by pattern
CommentMatches(s, language) ==
  IF language \in CLikeLanguages
  THEN LineMatches(s, <<47, 47>>, 0, <<>>)
         \o BlockMatches(s, <<47, 42>>, <<42, 47>>, 0, <<>>)
  ELSE IF language = "python"
  THEN LineMatches(s, <<35>>, 0, <<>>)
         \o BlockMatches(s, <<39, 39, 39>>, <<39, 39, 39>>, 0, <<>>)
         \o BlockMatches(s, <<34, 34, 34>>, <<34, 34, 34>>, 0, <<>>)
  ELSE <<>>

\* the CommentRange pushed for one match
CommentRange(match) ==
  [start    |-> match.index,
   end      |-> match.index + Len(match.original),
   text     |-> RemoveMarkers(match.original),
   original |-> match.original]

\* extractComments(text, languageId) for the code languages
extractComments(s, language) ==
  LET matches == CommentMatches(s, language)
      ranges  == [i \in 1..Len(matches) |-> CommentRange(matches[i])]
  IN  SelectSeq(ranges,
        LAMBDA c : RatioAbove(c.text, [num |-> 1, den |-> 10]))

\* isCodeLanguage(languageId)
isCodeLanguage(language) == language \in CLikeLanguages \cup {"python"}

\* getAnalyzableText: return [{ text, offset: 0 }]
WholeDocument(s) == <<[text |-> s, offset |-> 0]>>

\* String.prototype.trim
Trim(s) ==
  LET kept == {i \in 1..Len(s) : ~IsSpace(s[i])}
  IN  IF kept = {} THEN <<>>
      ELSE Slice(s, (CHOOSE i \in kept : \A x \in kept : i <= x) - 1,
                 CHOOSE i \in kept : \A x \in kept : i >= x)

\* the matches of />([^<]+)</g from lastIndex on: the first > that is not
\* directly followed by < and has a < behind it, up to the nearest <
RECURSIVE TagMatches(_, _, _)
TagMatches(s, lastIndex, acc) ==
  LET opens == {i \in lastIndex..(Len(s) - 3) :
                  /\ s[i + 1] = 62
                  /\ s[i + 2] # 60
                  /\ \E j \in (i + 2)..(Len(s) - 1) : s[j + 1] = 60}
  IN  IF opens = {} THEN acc
      ELSE LET index  == CHOOSE i \in opens : \A x \in opens : i <= x
               closes == {j \in (index + 2)..(Len(s) - 1) : s[j + 1] = 60}
               close  == CHOOSE j \in closes : \A x \in closes : j <= x
           IN  TagMatches(s, close + 1,
                 Append(acc, [index |-> index,
                              group |-> Slice(s, index + 1, close)]))

\* extractHtmlContent(text)
extractHtmlContent(s) ==
  LET matches == TagMatches(s, 0, <<>>)
      ranges  == [i \in 1..Len(matches) |->
                    [start    |-> matches[i].index + 1,
                     end      |-> matches[i].index + 1
                                    + Len(matches[i].group),
                     text     |-> Trim(matches[i].group),
                     original |-> matches[i].group]]
  IN  SelectSeq(ranges,
        LAMBDA c : RatioAbove(c.text, [num |-> 1, den |-> 10]))

\* [^\\$%{}] of the LaTeX text pattern
IsLatexText(u) == u \notin {92, 36, 37, 123, 125}

\* where the group of /(?:^|[^\\])([^\\$%{}]+)/gm starts when the match
\* starts at offset p, or -1 when there is no match at p: the start of a
\* line is tried first, then one character that is not a backslash
LatexGroupStart(s, p) ==
  IF /\ p < Len(s)
     /\ (p = 0 \/ IsLineTerminator(s[p]))
     /\ IsLatexText(s[p + 1])
  THEN p
  ELSE IF p + 1 < Len(s) /\ s[p + 1] # 92 /\ IsLatexText(s[p + 2])
  THEN p + 1
  ELSE -1

\* the matches of the LaTeX text pattern from lastIndex on
RECURSIVE LatexMatches(_, _, _)
LatexMatches(s, lastIndex, acc) ==
  LET starts == {p \in lastIndex..Len(s) : LatexGroupStart(s, p) >= 0}
  IN  IF starts = {} THEN acc
      ELSE LET index == CHOOSE p \in starts : \A x \in starts : p <= x
               from  == LatexGroupStart(s, index)
               ends  == {e \in (from + 1)..Len(s) :
                           e = Len(s) \/ ~IsLatexText(s[e + 1])}
               end   == CHOOSE e \in ends : \A x \in ends : e <= x
           IN  LatexMatches(s, end,
                 Append(acc, [index |-> index,
                              length |-> end - index,
                              group |-> Slice(s, from, end)]))

\* extractLatexContent(text)
extractLatexContent(s) ==
  LET matches == LatexMatches(s, 0, <<>>)
      ranges  == [i \in 1..Len(matches) |->
                    LET startOffset == matches[i].index
                                         + (matches[i].length
                                              - Len(matches[i].group))
                    IN  [start    |-> startOffset,
                         end      |-> startOffset + Len(matches[i].group),
                         text     |-> Trim(matches[i].group),
                         original |-> matches[i].group]]
  IN  SelectSeq(ranges,
        LAMBDA c : RatioAbove(c.text, [num |-> 1, den |-> 10]))

\* the { text, offset } pairs that getAnalyzableText maps the ranges to
AsSegments(ranges) ==
  [i \in 1..Len(ranges) |->
     [text |-> ranges[i].text, offset |-> ranges[i].start]]

\* the prose ids that getAnalyzableText returns whole
ProseLanguages == {"plaintext", "markdown", "japanese"}

\* getAnalyzableText with an empty result for the ids it has no branch for
getAnalyzableTextNoDefault(s, language) ==
  IF language \in ProseLanguages THEN WholeDocument(s)
  ELSE IF language = "html" THEN AsSegments(extractHtmlContent(s))
  ELSE IF language = "latex" THEN AsSegments(extractLatexContent(s))
  ELSE IF isCodeLanguage(language)
  THEN AsSegments(extractComments(s, language))
  ELSE <<>>

\* getAnalyzableText(text, languageId)
getAnalyzableText(s, language) ==
  IF language \in ProseLanguages THEN WholeDocument(s)
  ELSE IF language = "html" THEN AsSegments(extractHtmlContent(s))
  ELSE IF language = "latex" THEN AsSegments(extractLatexContent(s))
  ELSE IF isCodeLanguage(language)
  THEN AsSegments(extractComments(s, language))
  ELSE WholeDocument(s)

\* TextDocument: the offsets at which the lines of s start
LineStarts(s) ==
  {0} \cup {i \in 1..Len(s) :
              \/ s[i] = 10
              \/ (s[i] = 13 /\ ~(i + 1 <= Len(s) /\ s[i + 1] = 10))}

\* TextDocument.offsetAt(position)
offsetAt(s, position) ==
  LET starts == LineStarts(s)
      below(o) == Cardinality({x \in starts : x < o})
  IN  IF position.line >= Cardinality(starts) THEN Len(s)
      ELSE LET lineOffset == CHOOSE o \in starts : below(o) = position.line
               later == {o \in starts : o > lineOffset}
               nextLineOffset ==
                 IF later = {} THEN Len(s)
                 ELSE CHOOSE o \in later : \A x \in later : o <= x
           IN  Max(Min(lineOffset + position.character, nextLineOffset),
                   lineOffset)

\* TextDocument.positionAt(offset)
positionAt(s, offset) ==
  LET o == Max(Min(offset, Len(s)), 0)
      before == {x \in LineStarts(s) : x <= o}
      lineOffset == CHOOSE x \in before : \A y \in before : y <= x
  IN  [line |-> Cardinality(before) - 1, character |-> o - lineOffset]

\* validateTextDocument: one DiagnosticInfo of a segment as LSP Diagnostic
LspDiagnostic(s, segment, info) ==
  [range    |-> [start |-> positionAt(s, segment.offset
                                         + offsetAt(s, info.start)),
                 end   |-> positionAt(s, segment.offset
                                         + offsetAt(s, info.end))],
   message  |-> info.message,
   severity |-> info.severity,
   code     |-> info.code,
   source   |-> info.source]

\* the diagnostics of a segment, were none filtered out
SegmentInfosUnfiltered(segment, toks, cfg) ==
  checkGrammar(segment.text, SplitSentences(segment.text, toks), cfg)

\* validateTextDocument, the body of the loop for one segment that passed
\* the ratio check, tokens being tokenize's result
SegmentInfos(segment, toks, cfg) ==
  LET infos == checkGrammar(segment.text,
                            SplitSentences(segment.text, toks), cfg)
  IN  SelectSeq(infos, LAMBDA d : d.severity <= cfg.warningMinSeverity)

\* the LSP diagnostics pushed to allDiagnostics for that segment
SegmentDiagnostics(s, segment, toks, cfg) ==
  LET filtered == SegmentInfos(segment, toks, cfg)
  IN  [i \in 1..Len(filtered) |-> LspDiagnostic(s, segment, filtered[i])]

\* validateTextDocument after the configuration has arrived: what is sent
\* for the document, and the calls made on the way
ValidateBody(instance, s, cfg, answer, queryThrows) ==
  IF ~cfg.enable
  THEN [sent |-> TRUE, diagnostics |-> <<>>,
        tokenizeCalls |-> 0, queries |-> 0]
  ELSE LET segment == WholeDocument(s)[1] IN
       IF RatioBelow(segment.text, cfg.minJapaneseRatio)
       THEN [sent |-> TRUE, diagnostics |-> <<>>,
             tokenizeCalls |-> 0, queries |-> 0]
       ELSE LET r == TokenizeCall(instance, segment.text, answer,
                                  queryThrows) IN
            IF r.threw
            THEN [sent |-> FALSE, diagnostics |-> <<>>,
                  tokenizeCalls |-> 1, queries |-> r.queries]
            ELSE [sent |-> TRUE,
                  diagnostics |->
                    SegmentDiagnostics(s, segment, r.tokens, cfg),
                  tokenizeCalls |-> 1, queries |-> r.queries]

\* the mutant of ValidateProceeds: validation does not look at readiness
ValidateProceedsAlways(instance) == TRUE

\* validateTextDocument: if (!isTokenizerReady()) { return; }
ValidateProceeds(instance) == isMecabReady(instance)

NoAnalysis ==
  /\ text = <<>>
  /\ records = <<>>
  /\ tokens = <<>>
  /\ sentences = <<>>
  /\ diagnostics = <<>>
  /\ config = NoConfig
  /\ pc = "server"
  /\ NoExtract

NoPass == [phase |-> "free", doc |-> "doc1"]

\* the module state of mecabAnalyzer.ts after loading, two open empty
\* documents for which nothing was sent yet, no call in progress
Init ==
  /\ NoAnalysis
  /\ NoComponents
  /\ mecabInstance = FALSE
  /\ initPromise = "null"
  /\ loadStarts = 0
  /\ callers = [c \in Callers |-> "idle"]
  /\ docText = [d \in Docs |-> <<>>]
  /\ published = [d \in Docs |-> [sent |-> FALSE, diagnostics |-> <<>>]]
  /\ passes = [p \in Passes |-> NoPass]
  /\ lastStep = Step("none", FALSE, FALSE, 0, 0, FALSE)

\* initializeMecab() up to its first await
InitializeCall(c) ==
  /\ callers[c] = "idle"
  /\ IF mecabInstance
     THEN /\ callers' = [callers EXCEPT ![c] = "returned"]
          /\ UNCHANGED <<initPromise, loadStarts>>
     ELSE IF JoinsInFlight(initPromise)
     THEN /\ callers' = [callers EXCEPT ![c] = "awaiting"]
          /\ UNCHANGED <<initPromise, loadStarts>>
     ELSE /\ initPromise' = "pending"
          /\ loadStarts' = loadStarts + 1
          /\ callers' = [callers EXCEPT ![c] = "awaiting"]
  /\ lastStep' = Step("initialize", mecabInstance, FALSE, 0, 0, FALSE)
  /\ UNCHANGED <<mecabInstance, docText, published, passes>>
  /\ UNCHANGED <<avars, xvars, cvars>>

\* the load started by initializeMecab completes: import succeeded and
\* Mecab.waitReady() resolved
LoadSucceed ==
  /\ initPromise = "pending"
  /\ mecabInstance' = TRUE
  /\ initPromise' = "fulfilled"
  /\ lastStep' = Step("load", mecabInstance, FALSE, 0, 0, FALSE)
  /\ UNCHANGED <<loadStarts, callers, docText, published, passes>>
  /\ UNCHANGED <<avars, xvars, cvars>>

\* the load fails: the catch block logs and rethrows, the promise in
\* initPromise is rejected and stays in the slot
LoadFail ==
  /\ initPromise = "pending"
  /\ initPromise' = "rejected"
  /\ lastStep' = Step("load", mecabInstance, TRUE, 0, 0, FALSE)
  /\ UNCHANGED <<mecabInstance, loadStarts, callers, docText, published,
                 passes>>
  /\ UNCHANGED <<avars, xvars, cvars>>

\* initializeMecab() after its await on initPromise
InitializeResume(c) ==
  /\ callers[c] = "awaiting"
  /\ initPromise \in {"fulfilled", "rejected"}
  /\ callers' = [callers EXCEPT
                   ![c] = IF initPromise = "fulfilled" THEN "returned"
                          ELSE "threw"]
  /\ lastStep' = Step("initialize", mecabInstance,
                      initPromise = "rejected", 0, 0, FALSE)
  /\ UNCHANGED <<mecabInstance, initPromise, loadStarts, docText, published,
                 passes>>
  /\ UNCHANGED <<avars, xvars, cvars>>

\* a call of the exported tokenize(text)
DoTokenizeCall ==
  /\ \E s \in DocTexts, answer \in DocAnswers, queryThrows \in BOOLEAN :
       LET r == TokenizeCall(mecabInstance, s, answer, queryThrows)
       IN  lastStep' = Step("tokenize", mecabInstance, r.threw, 1,
                            r.queries, FALSE)
  /\ UNCHANGED <<mecabInstance, initPromise, loadStarts, callers, docText,
                 published, passes>>
  /\ UNCHANGED <<avars, xvars, cvars>>

\* validateTextDocument(d) up to await getDocumentConfig(...)
ValidateEntry(p, d) ==
  /\ passes[p].phase = "free"
  /\ passes' = IF ValidateProceeds(mecabInstance)
               THEN [passes EXCEPT ![p] = [phase |-> "config", doc |-> d]]
               ELSE passes
  /\ lastStep' = Step("validate", mecabInstance, FALSE, 0, 0, FALSE)

\* documents.onDidChangeContent: the document has new text and is validated
DidChangeContent(p, d, s) ==
  /\ docText' = [docText EXCEPT ![d] = s]
  /\ ValidateEntry(p, d)
  /\ UNCHANGED <<mecabInstance, initPromise, loadStarts, callers, published>>
  /\ UNCHANGED <<avars, xvars, cvars>>

\* onInitialized / onDidChangeConfiguration: a document is validated again
Revalidate(p, d) ==
  /\ ValidateEntry(p, d)
  /\ UNCHANGED <<mecabInstance, initPromise, loadStarts, callers, docText,
                 published>>
  /\ UNCHANGED <<avars, xvars, cvars>>

\* validateTextDocument(d) from the arrival of the configuration to its end
ValidateResume(p) ==
  /\ passes[p].phase = "config"
  /\ \E cfg \in DocConfigs, answer \in DocAnswers, queryThrows \in BOOLEAN :
       LET d == passes[p].doc
           r == ValidateBody(mecabInstance, docText[d], cfg, answer,
                             queryThrows)
       IN  /\ published' =
                IF r.sent
                THEN [published EXCEPT
                        ![d] = [sent |-> TRUE, diagnostics |-> r.diagnostics]]
                ELSE published
           /\ lastStep' = Step("validate", mecabInstance, FALSE,
                               r.tokenizeCalls, r.queries, r.sent)
  /\ passes' = [passes EXCEPT ![p] = NoPass]
  /\ UNCHANGED <<mecabInstance, initPromise, loadStarts, callers, docText>>
  /\ UNCHANGED <<avars, xvars, cvars>>

\* documents.onDidClose: the diagnostics of the document are cleared
DidClose(d) ==
  /\ published' = [published EXCEPT
                     ![d] = [sent |-> TRUE, diagnostics |-> <<>>]]
  /\ lastStep' = Step("close", mecabInstance, FALSE, 0, 0, TRUE)
  /\ UNCHANGED <<mecabInstance, initPromise, loadStarts, callers, docText,
                 passes>>
  /\ UNCHANGED <<avars, xvars, cvars>>

Next ==
  \/ \E c \in Callers : InitializeCall(c)
  \/ LoadSucceed
  \/ LoadFail
  \/ \E c \in Callers : InitializeResume(c)
  \/ DoTokenizeCall
  \/ \E p \in Passes, d \in Docs, s \in DocTexts : DidChangeContent(p, d, s)
  \/ \E p \in Passes, d \in Docs : Revalidate(p, d)
  \/ \E p \in Passes : ValidateResume(p)
  \/ \E d \in Docs : DidClose(d)

Spec == Init /\ [][Next]_vars

\* the callers of initializeMecab that have made their call
Called == {c \in Callers : callers[c] # "idle"}

\* C3: however many callers call initialize(), also while a load is in
\* flight, exactly one load of the engine is started, and a caller that
\* returned normally finds the tokenizer ready
C3_SingleLoad ==
  /\ loadStarts <= 1
  /\ Called # {} => loadStarts = 1
  /\ \A c \in Callers : callers[c] = "returned" => mecabInstance

\* every caller has called, at least one of them while the load was in
\* flight, and all have returned
C3_Witness ==
  /\ Called = Callers
  /\ \A c \in Callers : callers[c] = "returned"
  /\ loadStarts = 1
  /\ lastStep.op = "initialize"
  /\ ~lastStep.threw

\* C4: a tokenize(text) call on a ready tokenizer queries the backend
\* exactly once; on a tokenizer that is not ready it fails with an error
\* and never reaches the backend
C4_TokenizeNeedsReady ==
  lastStep.op = "tokenize" =>
    /\ lastStep.ready => lastStep.queries = 1
    /\ ~lastStep.ready => (lastStep.threw /\ lastStep.queries = 0)

\* a tokenize call made before the tokenizer was ready has just failed
C4_Witness ==
  /\ lastStep.op = "tokenize"
  /\ ~lastStep.ready
  /\ lastStep.threw
  /\ ~mecabInstance

\* C5: while initialisation has not completed successfully (not started,
\* pending or failed) the tokenizer is not ready; a failed initialisation
\* is reported to every caller that waited for it; and a validation that
\* finds the tokenizer not ready returns without tokenizing and without
\* publishing, leaving no pass in progress
C5_NotReadyNoAnalysis ==
  /\ initPromise # "fulfilled" => ~mecabInstance
  /\ initPromise = "rejected" =>
       /\ ~mecabInstance
       /\ \A c \in Callers : callers[c] \in {"idle", "awaiting", "threw"}
  /\ (lastStep.op = "validate" /\ ~lastStep.ready) =>
       /\ lastStep.tokenizeCalls = 0
       /\ lastStep.queries = 0
       /\ ~lastStep.sent
  /\ ~mecabInstance => \A p \in Passes : passes[p].phase = "free"

\* the load has failed, a caller has been told so, and a document changed
\* afterwards was not validated
C5_Witness ==
  /\ initPromise = "rejected"
  /\ \E c \in Callers : callers[c] = "threw"
  /\ lastStep.op = "validate"
  /\ ~lastStep.ready
  /\ \E d \in Docs : docText[d] # <<>> /\ ~published[d].sent

(***************************************************************************)
(* SpecExtract: one validation pass over one document of a prose or a code *)
(* language, by a ready server with validation enabled:                    *)
(* getAnalyzableText, then for each segment the ratio check, analyze,      *)
(* checkGrammar, the severity filter and the translation of the positions  *)
(* into the document (validateTextDocument, server.ts).                    *)
(***************************************************************************)
MaxDocLen == 5   \* longest document

\* slash, asterisk, space, newline and the Japanese comma
DocAlphabet == {47, 42, 32, 10, 12289}

ExtractTexts == SeqsUpTo(DocAlphabet, MaxDocLen)

\* angle brackets, space and the Japanese comma
HtmlAlphabet == {60, 62, 32, 12289}

\* backslash, opening brace, newline and the Japanese comma
LatexAlphabet == {92, 123, 10, 12289}

\* slash, newline and the Japanese comma
ProseAlphabet == {47, 10, 12289}

\* ids that getAnalyzableText has no branch for
OtherLanguages == {"go", "json"}

\* the documents: a language id and a text over the characters that matter
\* to the branch of that language
ExtractDocuments ==
  ({"javascript"} \X ExtractTexts)
    \cup ({"html"} \X SeqsUpTo(HtmlAlphabet, MaxDocLen))
    \cup ({"latex"} \X SeqsUpTo(LatexAlphabet, MaxDocLen))
    \cup ((ProseLanguages \cup OtherLanguages)
            \X SeqsUpTo(ProseAlphabet, MaxDocLen))

\* defaultConfig with the comma limit set to 0 by the client, so that every
\* sentence with a comma is reported
ExtractConfig ==
  [enable             |-> TRUE,
   minJapaneseRatio   |-> [num |-> 1, den |-> 10],
   warningMinSeverity |-> 2,
   rules              |-> FlagsConfig(AllRules, 0, 1).rules]

\* the backend's record for one character of the document alphabet
BackendRecord(u) == Plain(<<u>>, "Kigou")

\* the backend's answer for a text over the document alphabet: one record
\* per character, white space being skipped
BackendAnswer(s) ==
  LET at == SelectSeq([i \in 1..Len(s) |-> i], LAMBDA i : ~IsSpace(s[i]))
  IN  [j \in 1..Len(at) |-> BackendRecord(s[at[j]])]

\* validateTextDocument, the loop over the segments: for every diagnostic
\* that will be sent, the segment it comes from and its DiagnosticInfo
SegmentsTrace(segs, cfg) ==
  Concat([k \in 1..Len(segs) |->
    IF RatioBelow(segs[k].text, cfg.minJapaneseRatio) THEN <<>>
    ELSE LET infos == SegmentInfos(segs[k],
                        Tokenize(segs[k].text, BackendAnswer(segs[k].text)),
                        cfg)
         IN  [i \in 1..Len(infos) |-> [segment |-> k, info |-> infos[i]]]])

InitExtract ==
  /\ NoServer
  /\ NoComponents
  /\ \E d \in ExtractDocuments : languageId = d[1] /\ text = d[2]
  /\ segments = <<>>
  /\ trace = <<>>
  /\ allDiagnostics = <<>>
  /\ records = <<>>
  /\ tokens = <<>>
  /\ sentences = <<>>
  /\ diagnostics = <<>>
  /\ config = ExtractConfig
  /\ pc = "document"

\* const segments = getAnalyzableText(text, languageId)
DoExtract ==
  /\ pc = "document"
  /\ segments' = getAnalyzableText(text, languageId)
  /\ pc' = "extracted"
  /\ UNCHANGED <<text, records, tokens, sentences, diagnostics, config,
                 languageId, trace, allDiagnostics, svars, cvars>>

\* the loop over the segments, up to sendDiagnostics
DoValidateSegments ==
  /\ pc = "extracted"
  /\ trace' = SegmentsTrace(segments, config)
  /\ allDiagnostics' =
       [i \in 1..Len(trace') |->
          LspDiagnostic(text, segments[trace'[i].segment], trace'[i].info)]
  /\ pc' = "sent"
  /\ UNCHANGED <<text, records, tokens, sentences, diagnostics, config,
                 languageId, segments, svars, cvars>>

NextExtract == DoExtract \/ DoValidateSegments

SpecExtract == InitExtract /\ [][NextExtract]_vars

(***************************************************************************)
(* Claims about extraction and position translation (SpecExtract).         *)
(***************************************************************************)
\* the position of offset o in s: a line for every newline before o, the
\* character counted from the last of them
PositionOf(s, o) ==
  LET newlines == {i \in 1..o : s[i] = 10}
      lineStart == IF newlines = {} THEN 0
                   ELSE CHOOSE i \in newlines : \A x \in newlines : x <= i
  IN  [line |-> Cardinality(newlines), character |-> o - lineStart]

\* the offset in s that position p stands for
OffsetOf(s, p) == CHOOSE o \in 0..Len(s) : PositionOf(s, o) = p

\* C19: for every diagnostic produced for a segment, the range delivered
\* to the host is the document position of segment.offset plus the
\* diagnostic's offset local to the segment text, for start and end
C19_RangeIsSegmentOffsetPlusLocal ==
  pc = "sent" =>
    \A i \in 1..Len(allDiagnostics) :
      LET segment == segments[trace[i].segment]
          info    == trace[i].info
      IN  /\ allDiagnostics[i].range.start =
               PositionOf(text, segment.offset
                                  + OffsetOf(segment.text, info.start))
          /\ allDiagnostics[i].range.end =
               PositionOf(text, segment.offset
                                  + OffsetOf(segment.text, info.end))

\* C20: for every segment extracted from a comment, segment.offset is the
\* index in the document of the first retained character of the sanitized
\* text: document[offset .. offset+1) is the first character of
\* segment.text
C20_OffsetAtFirstRetainedCharacter ==
  (pc \in {"extracted", "sent"} /\ isCodeLanguage(languageId)) =>
    \A k \in 1..Len(segments) :
      /\ segments[k].text # <<>>
      /\ Slice(text, segments[k].offset, segments[k].offset + 1)
           = <<segments[k].text[1]>>


\* the ids that getAnalyzableText extracts from rather than returns whole
ExtractingLanguages == {"html", "latex"} \cup CLikeLanguages \cup {"python"}

\* C21: for the prose ids (plaintext, markdown, japanese) and for every
\* language id that is neither a prose id nor an id extraction supports,
\* extraction returns exactly one segment, the whole document at offset 0
C21_WholeDocumentOutsideExtraction ==
  (pc \in {"extracted", "sent"}
     /\ (languageId \in ProseLanguages
           \/ languageId \notin ExtractingLanguages))
    => segments = <<[text |-> text, offset |-> 0]>>

\* a document of an id without a branch that looks like a line comment and
\* is returned whole
C21_Witness ==
  /\ pc = "extracted"
  /\ languageId = "go"
  /\ text = <<47, 47, 12289>>
  /\ segments = <<[text |-> text, offset |-> 0]>>


(***************************************************************************)
(* treeSitterExtractor.ts: the AST strategy.                               *)
(***************************************************************************)

\* languageGrammarMap[languageId], "none" for an id that is not a key
languageGrammarMap(language) ==
  CASE language \in {"javascript", "javascriptreact"} ->
         "tree-sitter-javascript"
    [] language = "typescript" -> "tree-sitter-typescript"
    [] language = "typescriptreact" -> "tree-sitter-tsx"
    [] language = "python" -> "tree-sitter-python"
    [] language \in {"c", "cpp"} -> "tree-sitter-c"
    [] language = "html" -> "tree-sitter-html"
    [] OTHER -> "none"

\* s.replace(/^\s*\*\s?/gm, ''): at the start of every line, white space
\* up to an asterisk, the asterisk and one white space after it go
RECURSIVE StripLineStars(_, _, _)
StripLineStars(s, p, acc) ==
  IF p >= Len(s) THEN acc
  ELSE LET rest == {k \in p..Len(s) : k = Len(s) \/ ~IsSpace(s[k + 1])}
           k    == CHOOSE x \in rest : \A y \in rest : x <= y
       IN  IF /\ (p = 0 \/ IsLineTerminator(s[p]))
              /\ k < Len(s)
              /\ s[k + 1] = 42
           THEN StripLineStars(s,
                  IF k + 1 < Len(s) /\ IsSpace(s[k + 2]) THEN k + 2
                  ELSE k + 1,
                  acc)
           ELSE StripLineStars(s, p + 1, Append(acc, s[p + 1]))

\* sanitizeComment(text, languageId)
sanitizeComment(s, language) ==
  Trim(
    IF language \in {"javascript", "javascriptreact", "typescript",
                     "typescriptreact", "c", "cpp"}
    THEN StripLineStars(
           StripTrailing(StripLeading(StripLeading(s, <<47, 47>>),
                                      <<47, 42>>),
                         <<42, 47>>),
           0, <<>>)
    ELSE IF language = "python"
    THEN LET r1 == StripLeading(s, <<35>>)
             r2 == IF OccursAt(r1, <<39, 39, 39>>, 0)
                   THEN StripLeading(r1, <<39, 39, 39>>)
                   ELSE StripLeading(r1, <<34, 34, 34>>)
         IN  IF r2 # StripTrailing(r2, <<39, 39, 39>>)
             THEN StripTrailing(r2, <<39, 39, 39>>)
             ELSE StripTrailing(r2, <<34, 34, 34>>)
    ELSE IF language = "html"
    THEN StripTrailing(StripLeading(s, <<60, 33, 45, 45>>), <<45, 45, 62>>)
    ELSE s)

\* calculateJapaneseRatio(sanitized) >= minJapaneseRatio
RatioAtLeast(s, minRatio) == ~RatioBelow(s, minRatio)

\* a node of the tree that parserInstance.parse(text) returns
Node(type, s, startIndex, endIndex) ==
  [type |-> type, startIndex |-> startIndex, endIndex |-> endIndex,
   text |-> Slice(s, startIndex, endIndex)]

\* the opening and the closing tag of a paragraph
OpenP == <<60, 112, 62>>
CloseP == <<60, 47, 112, 62>>

\* ', ", ''' and """
StringQuotes == {<<39>>, <<34>>, <<39, 39, 39>>, <<34, 34, 34>>}

\* s is a string literal of python: a quote, a body without quotes, line
\* ends or backslashes, and the same quote
IsStringLiteral(s) ==
  \E q \in StringQuotes :
    /\ Len(s) >= 2 * Len(q)
    /\ OccursAt(s, q, 0)
    /\ OccursAt(s, q, Len(s) - Len(q))
    /\ \A i \in (Len(q) + 1)..(Len(s) - Len(q)) :
         s[i] \notin {39, 34, 92, 10, 13}

\* parserInstance.parse(text), the nodes in the order of the traversal,
\* for the documents of the specifications: a document that is one line
\* comment is one comment node, a paragraph with text between its tags has
\* one text node, a python document that is one string literal is one
\* string node, and any other document has none of them
ParseNodes(s, language) ==
  IF /\ languageGrammarMap(language)
          \in {"tree-sitter-javascript", "tree-sitter-typescript",
               "tree-sitter-tsx", "tree-sitter-c"}
     /\ OccursAt(s, <<47, 47>>, 0)
     /\ \A i \in 1..Len(s) : ~IsLineTerminator(s[i])
  THEN <<Node("comment", s, 0, Len(s))>>
  ELSE IF /\ language = "html"
          /\ Len(s) > Len(OpenP) + Len(CloseP)
          /\ OccursAt(s, OpenP, 0)
          /\ OccursAt(s, CloseP, Len(s) - Len(CloseP))
          /\ \A i \in (Len(OpenP) + 1)..(Len(s) - Len(CloseP)) :
               s[i] \notin {60, 62, 38}
  THEN <<Node("text", s, Len(OpenP), Len(s) - Len(CloseP))>>
  ELSE IF language = "python" /\ IsStringLiteral(s)
  THEN <<Node("string", s, 0, Len(s))>>
  ELSE <<>>

\* isCommentNode(node.type, languageId): every type in commentNodeTypes
\* but python's string contains the word comment
isCommentNode(type, language) ==
  \/ type \in {"comment", "line_comment", "block_comment"}
  \/ (language = "python" /\ type = "string")

\* isPythonDocstring(node)
isPythonDocstring(node) ==
  /\ node.type \in {"string", "string_content"}
  /\ \/ OccursAt(node.text, <<34, 34, 34>>, 0)
     \/ OccursAt(node.text, <<39, 39, 39>>, 0)

\* extractCommentsWithTreeSitter after loadLanguage returned a grammar
CommentsOfTree(s, language, minJapaneseRatio) ==
  LET nodes  == SelectSeq(ParseNodes(s, language),
                  LAMBDA n : \/ isCommentNode(n.type, language)
                             \/ (language = "python"
                                   /\ isPythonDocstring(n)))
      ranges == [i \in 1..Len(nodes) |->
                   [start    |-> nodes[i].startIndex,
                    end      |-> nodes[i].endIndex,
                    text     |-> sanitizeComment(nodes[i].text, language),
                    original |-> nodes[i].text]]
  IN  SelectSeq(ranges,
        LAMBDA c : RatioAtLeast(c.text, minJapaneseRatio))

\* extractHtmlContentWithTreeSitter after loadLanguage returned a grammar
HtmlContentOfTree(s, minJapaneseRatio) ==
  LET nodes  == SelectSeq(ParseNodes(s, "html"),
                  LAMBDA n : n.type \in {"text", "raw_text"})
      ranges == [i \in 1..Len(nodes) |->
                   [start    |-> nodes[i].startIndex,
                    end      |-> nodes[i].endIndex,
                    text     |-> Trim(nodes[i].text),
                    original |-> nodes[i].text]]
  IN  SelectSeq(ranges,
        LAMBDA c : c.text # <<>> /\ RatioAtLeast(c.text, minJapaneseRatio))

(***************************************************************************)
(* The two extraction strategies on one candidate: a line comment of a     *)
(* javascript document or the text of a paragraph of an html document,     *)
(* and a threshold.                                                        *)
(***************************************************************************)

MaxCandidateLen == 10   \* longest candidate

\* a Latin letter and the Japanese comma
CandidateAlphabet == {97, 12289}

Candidates == SeqsUpTo(CandidateAlphabet, MaxCandidateLen)

RatioDocuments ==
  {<<"javascript", <<47, 47>> \o b>> : b \in Candidates}
    \cup {<<"html", OpenP \o b \o CloseP>> : b \in Candidates \ {<<>>}}

\* minJapaneseRatio: 0, 0.05, the default 0.1, and 0.5
RatioThresholds ==
  {[num |-> 0, den |-> 1], [num |-> 1, den |-> 20],
   [num |-> 1, den |-> 10], [num |-> 1, den |-> 2]}

InitRatio ==
  /\ NoServer
  /\ NoTranslation
  /\ \E d \in RatioDocuments : languageId = d[1] /\ text = d[2]
  /\ \E r \in RatioThresholds : config = [minJapaneseRatio |-> r]
  /\ segments = <<>>
  /\ trace = <<>>
  /\ allDiagnostics = <<>>
  /\ records = <<>>
  /\ tokens = <<>>
  /\ sentences = <<>>
  /\ diagnostics = <<>>
  /\ pc = "candidate"
  /\ parserInstance = TRUE
  /\ parserInit = "fulfilled"
  /\ languageCache = {languageGrammarMap(languageId)}
  /\ grammarLoads = <<>>
  /\ failedLoads = {}
  /\ extractions = <<>>
  /\ astComments = <<>>
  /\ cache = <<>>
  /\ now = 0
  /\ lookups = <<>>
  /\ unanswered = {}
  /\ lastLookup = [op |-> "none"]

\* the regex strategy: extractComments(text, languageId) or
\* extractHtmlContent(text); neither takes a threshold
DoRegexStrategy ==
  /\ pc = "candidate"
  /\ segments' = AsSegments(IF languageId = "html"
                            THEN extractHtmlContent(text)
                            ELSE extractComments(text, languageId))
  /\ pc' = "regex"
  /\ UNCHANGED <<text, records, tokens, sentences, diagnostics, config,
                 languageId, trace, allDiagnostics, svars, tvars, wvars,
                 pvars>>

\* the AST strategy with the grammar in the cache:
\* extractCommentsWithTreeSitter(text, languageId, minJapaneseRatio) or
\* extractHtmlContentWithTreeSitter(text, minJapaneseRatio)
DoAstStrategy ==
  /\ pc = "regex"
  /\ astComments' = AsSegments(
       IF languageId = "html"
       THEN HtmlContentOfTree(text, config.minJapaneseRatio)
       ELSE CommentsOfTree(text, languageId, config.minJapaneseRatio))
  /\ pc' = "both"
  /\ UNCHANGED <<text, records, tokens, sentences, diagnostics, config,
                 languageId, segments, trace, allDiagnostics, svars,
                 parserInstance, parserInit, languageCache, grammarLoads,
                 failedLoads, extractions, wvars, pvars>>

NextRatio == DoRegexStrategy \/ DoAstStrategy

SpecRatio == InitRatio /\ [][NextRatio]_vars

\* the candidate of the document: the comment without its marker, or the
\* text between the tags
CandidateOf(language, s) ==
  IF language = "html"
  THEN Slice(s, Len(OpenP), Len(s) - Len(CloseP))
  ELSE Slice(s, 2, Len(s))

\* C22: in both extraction strategies a candidate is discarded exactly when
\* its Japanese-character ratio is below the minJapaneseRatio passed in and
\* is retained otherwise, so a candidate at the threshold is retained and a
\* threshold other than 0.1 is the one applied
C22_DiscardedExactlyBelowThreshold ==
  pc = "both" =>
    LET below == RatioBelow(CandidateOf(languageId, text),
                            config.minJapaneseRatio)
    IN  /\ (segments = <<>>) <=> below
        /\ (astComments = <<>>) <=> below


(***************************************************************************)
(* wikipedia.ts: fetchWikipediaSummary and its cache.                      *)
(***************************************************************************)

NumLookups == 2   \* calls of fetchWikipediaSummary that can be in progress
MaxTicks == 2     \* how many times the clock advances

\* const CACHE_EXPIRY_MS = 60 * 60 * 1000
CACHE_EXPIRY_MS == 60 * 60 * 1000

\* the clock advances by half an hour at a time
TickMs == 30 * 60 * 1000

Lookups == 1..NumLookups

Terms == {"neko", "inu"}

\* cache.get(term) === undefined
NoEntry == [status |-> "none"]

\* a WikipediaCacheEntry
CacheEntry(summary, status, timestamp) ==
  [summary |-> summary, status |-> status, timestamp |-> timestamp]

\* the status codes of the responses, and response.ok
Statuses == {200, 404, 500}

\* the extract of the response body, "" when it has none
Extracts == {"", "summary"}

\* cached && Date.now() - cached.timestamp <= CACHE_EXPIRY_MS, in place
\* of <
IsFreshInclusive(cached, time) ==
  cached # NoEntry /\ time - cached.timestamp <= CACHE_EXPIRY_MS

\* cached && Date.now() - cached.timestamp < CACHE_EXPIRY_MS
IsFresh(cached, time) ==
  cached # NoEntry /\ time - cached.timestamp < CACHE_EXPIRY_MS

\* every status that is not a success stored as an error
StoredStatusError(status) ==
  IF status \in 200..299 THEN "success" ELSE "error"

\* the status that is stored for a response: 404 first, then !response.ok
StoredStatus(status) ==
  IF status = 404 THEN "not_found"
  ELSE IF status \notin 200..299 THEN "error"
  ELSE "success"

\* what a step of a lookup did: whether it called fetch, whether the call
\* returned and what, the status of the response it got, and whether the
\* call was the first for its term since one that got no response
LookupStep(op, term, requested, returned, result, status, retry) ==
  [op |-> op, term |-> term, requested |-> requested,
   returned |-> returned, result |-> result, status |-> status,
   retry |-> retry]

Idle == [phase |-> "idle", term |-> "none"]

InitCache ==
  /\ NoAnalysis
  /\ NoTranslation
  /\ NoServer
  /\ parserInstance = FALSE
  /\ parserInit = "null"
  /\ languageCache = {}
  /\ grammarLoads = <<>>
  /\ failedLoads = {}
  /\ extractions = <<>>
  /\ astComments = <<>>
  /\ cache = [t \in Terms |-> NoEntry]
  /\ now = 0
  /\ lookups = [l \in Lookups |-> Idle]
  /\ unanswered = {}
  /\ lastLookup = [op |-> "none"]

\* fetchWikipediaSummary(term) up to its return from the cache or to
\* await fetch(url, ...)
LookupStart(l, t) ==
  /\ lookups[l].phase = "idle"
  /\ IF IsFresh(cache[t], now)
     THEN /\ lookups' = lookups
          /\ lastLookup' = LookupStep("start", t, FALSE, TRUE,
                                      cache[t].summary, 0, t \in unanswered)
     ELSE /\ lookups' = [lookups EXCEPT
                           ![l] = [phase |-> "fetching", term |-> t]]
          /\ lastLookup' = LookupStep("start", t, TRUE, FALSE, "none", 0,
                                      t \in unanswered)
  /\ unanswered' = unanswered \ {t}
  /\ UNCHANGED <<cache, now>>
  /\ UNCHANGED <<avars, svars, xvars, tvars, pvars>>

\* fetch resolves with a response: 404 and the other failures are stored
\* and null is returned, a success goes on to await response.json()
FetchResolve(l, status) ==
  /\ lookups[l].phase = "fetching"
  /\ LET t == lookups[l].term IN
     IF StoredStatus(status) = "success"
     THEN /\ lookups' = [lookups EXCEPT ![l].phase = "json"]
          /\ lastLookup' = LookupStep("response", t, FALSE, FALSE, "none",
                                      status, FALSE)
          /\ UNCHANGED <<cache, unanswered>>
     ELSE /\ cache' = [cache EXCEPT
                         ![t] = CacheEntry("null", StoredStatus(status), now)]
          /\ lookups' = [lookups EXCEPT ![l] = Idle]
          /\ lastLookup' = LookupStep("response", t, FALSE, TRUE, "null",
                                      status, FALSE)
          /\ unanswered' = unanswered \ {t}
  /\ UNCHANGED now
  /\ UNCHANGED <<avars, svars, xvars, tvars, pvars>>

\* a catch block that evicts the entry of the term
FetchRejectEvicts(l) ==
  /\ lookups[l].phase = "fetching"
  /\ lookups' = [lookups EXCEPT ![l] = Idle]
  /\ lastLookup' = LookupStep("failure", lookups[l].term, FALSE, TRUE,
                              "null", 0, FALSE)
  /\ unanswered' = unanswered \cup {lookups[l].term}
  /\ cache' = [cache EXCEPT ![lookups[l].term] = NoEntry]
  /\ UNCHANGED now
  /\ UNCHANGED <<avars, svars, xvars, tvars, pvars>>

\* fetch rejects: the catch block returns null and stores nothing
FetchReject(l) ==
  /\ lookups[l].phase = "fetching"
  /\ lookups' = [lookups EXCEPT ![l] = Idle]
  /\ lastLookup' = LookupStep("failure", lookups[l].term, FALSE, TRUE,
                              "null", 0, FALSE)
  /\ unanswered' = unanswered \cup {lookups[l].term}
  /\ UNCHANGED <<cache, now>>
  /\ UNCHANGED <<avars, svars, xvars, tvars, pvars>>

\* response.json() resolves: data.extract || null is stored and returned
JsonResolve(l, extract) ==
  /\ lookups[l].phase = "json"
  /\ LET t == lookups[l].term
         summary == IF extract = "" THEN "null" ELSE extract
     IN  /\ cache' = [cache EXCEPT
                        ![t] = CacheEntry(summary, "success", now)]
         /\ lastLookup' = LookupStep("json", t, FALSE, TRUE, summary, 200,
                                     FALSE)
         /\ unanswered' = unanswered \ {t}
  /\ lookups' = [lookups EXCEPT ![l] = Idle]
  /\ UNCHANGED now
  /\ UNCHANGED <<avars, svars, xvars, tvars, pvars>>

\* response.json() rejects: the catch block returns null and stores
\* nothing
JsonReject(l) ==
  /\ lookups[l].phase = "json"
  /\ lookups' = [lookups EXCEPT ![l] = Idle]
  /\ lastLookup' = LookupStep("badjson", lookups[l].term, FALSE, TRUE,
                              "null", 200, FALSE)
  /\ UNCHANGED <<cache, now, unanswered>>
  /\ UNCHANGED <<avars, svars, xvars, tvars, pvars>>

\* clearCache()
ClearCache ==
  /\ cache' = [t \in Terms |-> NoEntry]
  /\ lastLookup' = [op |-> "clear"]
  /\ UNCHANGED <<now, lookups, unanswered>>
  /\ UNCHANGED <<avars, svars, xvars, tvars, pvars>>

\* time passes
Tick ==
  /\ now < MaxTicks * TickMs
  /\ now' = now + TickMs
  /\ lastLookup' = [op |-> "tick"]
  /\ UNCHANGED <<cache, lookups, unanswered>>
  /\ UNCHANGED <<avars, svars, xvars, tvars, pvars>>

NextCache ==
  \/ \E l \in Lookups, t \in Terms : LookupStart(l, t)
  \/ \E l \in Lookups, status \in Statuses : FetchResolve(l, status)
  \/ \E l \in Lookups : FetchReject(l)
  \/ \E l \in Lookups, extract \in Extracts : JsonResolve(l, extract)
  \/ \E l \in Lookups : JsonReject(l)
  \/ ClearCache
  \/ Tick

SpecCache == InitCache /\ [][NextCache]_vars


FailureStatusStored ==
  (lastLookup.op = "response" /\ lastLookup.status \notin 200..299) =>
    /\ cache[lastLookup.term] =
         CacheEntry("null",
                    IF lastLookup.status = 404 THEN "not_found" ELSE "error",
                    now)
    /\ lastLookup.returned
    /\ lastLookup.result = "null"

\* a lookup that gets no response returns null and stores nothing
NoResponseStoresNothing ==
  (lastLookup'.op = "failure") =>
    (cache' = cache /\ lastLookup'.returned /\ lastLookup'.result = "null")

\* C24 as stated: a 404 response stores not_found and any other non-2xx
\* response stores error, both returning null; a lookup that fails before
\* any response stores nothing and leaves the cache unchanged, and the next
\* lookup for that term issues a network request again
C24_NextLookupAlwaysRequests ==
  /\ [](FailureStatusStored
          /\ ((lastLookup.op = "start" /\ lastLookup.retry)
                => lastLookup.requested))
  /\ [][NoResponseStoresNothing]_vars

\* C24, amended: a 404 response stores not_found and any other non-2xx
\* response stores error, both returning null; a lookup that fails before
\* any response stores nothing and leaves the cache unchanged, and the next
\* lookup for that term issues a network request again unless the cache
\* holds an entry for the term that is less than one hour old, stored by
\* another lookup
C24_FailuresStoredNoResponseNot ==
  /\ [](FailureStatusStored
          /\ ((/\ lastLookup.op = "start"
               /\ lastLookup.retry
               /\ ~(/\ cache[lastLookup.term] # NoEntry
                    /\ now - cache[lastLookup.term].timestamp
                         < 60 * 60 * 1000))
                => lastLookup.requested))
  /\ [][NoResponseStoresNothing]_vars

\* the first lookup for a term since one that got no response finds an
\* expired not_found entry and issues a request
C24_Witness ==
  /\ lastLookup.op = "start"
  /\ lastLookup.retry
  /\ lastLookup.requested
  /\ cache[lastLookup.term] # NoEntry
  /\ cache[lastLookup.term].status = "not_found"


(***************************************************************************)
(* treeSitterExtractor.ts: initializeTreeSitter, loadLanguage and the      *)
(* calls of extractCommentsWithTreeSitter that overlap at their awaits.    *)
(***************************************************************************)

NumExtractors == 2     \* callers of the extractor
MaxGrammarLoads == 2   \* Parser.Language.load calls per grammar name

Extractors == 1..NumExtractors

\* two ids with the same grammar, one with another, one without a grammar
LoaderLanguages == {"javascript", "javascriptreact", "typescript", "go"}

Grammars == {languageGrammarMap(l) : l \in LoaderLanguages} \ {"none"}

\* the document of every call: a line comment with the Japanese comma
LoaderText == <<47, 47, 12289>>

\* where a caller stands, and how its last call of
\* extractCommentsWithTreeSitter ended
Extraction(phase, language, outcome, result) ==
  [phase |-> phase, language |-> language, outcome |-> outcome,
   result |-> result]

\* extractCommentsWithTreeSitter from parserInstance.setLanguage on, with
\* the default minJapaneseRatio
ExtractionResult(language) ==
  CommentsOfTree(LoaderText, language, [num |-> 1, den |-> 10])

InitLoader ==
  /\ NoAnalysis
  /\ NoTranslation
  /\ NoServer
  /\ parserInstance = FALSE
  /\ parserInit = "null"
  /\ languageCache = {}
  /\ grammarLoads = [g \in Grammars |-> 0]
  /\ failedLoads = {}
  /\ extractions = [c \in Extractors |->
                      Extraction("idle", "none", "none", <<>>)]
  /\ astComments = <<>>
  /\ cache = <<>>
  /\ now = 0
  /\ lookups = <<>>
  /\ unanswered = {}
  /\ lastLookup = [op |-> "none"]

\* initializeTreeSitter() up to its first await
InitializeTreeSitterCall(c) ==
  /\ extractions[c].phase = "idle"
  /\ IF parserInstance
     THEN UNCHANGED <<parserInit, extractions>>
     ELSE IF parserInit # "null"
     THEN /\ extractions' = [extractions EXCEPT ![c].phase = "initializing"]
          /\ UNCHANGED parserInit
     ELSE /\ parserInit' = "pending"
          /\ extractions' = [extractions EXCEPT ![c].phase = "initializing"]
  /\ UNCHANGED <<parserInstance, languageCache, grammarLoads, failedLoads,
                 astComments>>
  /\ UNCHANGED <<avars, svars, xvars, wvars, pvars>>

\* the import and Parser.init succeed: parserInstance = new Parser()
ParserInitSucceed ==
  /\ parserInit = "pending"
  /\ parserInit' = "fulfilled"
  /\ parserInstance' = TRUE
  /\ UNCHANGED <<languageCache, grammarLoads, failedLoads, extractions,
                 astComments>>
  /\ UNCHANGED <<avars, svars, xvars, wvars, pvars>>

\* the import or Parser.init fails: the rejected promise stays in the slot
ParserInitFail ==
  /\ parserInit = "pending"
  /\ parserInit' = "rejected"
  /\ UNCHANGED <<parserInstance, languageCache, grammarLoads, failedLoads,
                 extractions, astComments>>
  /\ UNCHANGED <<avars, svars, xvars, wvars, pvars>>

\* initializeTreeSitter() after its await on initPromise
InitializeTreeSitterResume(c) ==
  /\ extractions[c].phase = "initializing"
  /\ parserInit \in {"fulfilled", "rejected"}
  /\ extractions' = [extractions EXCEPT ![c].phase = "idle"]
  /\ UNCHANGED <<parserInstance, parserInit, languageCache, grammarLoads,
                 failedLoads, astComments>>
  /\ UNCHANGED <<avars, svars, xvars, wvars, pvars>>

\* extractCommentsWithTreeSitter(text, languageId) up to the await in
\* loadLanguage, or to its end when loadLanguage needs no load: without a
\* parser it throws; without a grammar name it returns []; with the
\* grammar in the cache it parses; otherwise getGrammarWasmPath finds the
\* file and Parser.Language.load is called, or it throws and the catch
\* block makes loadLanguage return null
ExtractCall(c, language, found) ==
  /\ extractions[c].phase = "idle"
  /\ LET g == languageGrammarMap(language) IN
     IF ~parserInstance
     THEN /\ extractions' = [extractions EXCEPT
                               ![c] = Extraction("idle", language, "threw",
                                                 <<>>)]
          /\ UNCHANGED <<grammarLoads, failedLoads>>
     ELSE IF g = "none"
     THEN /\ extractions' = [extractions EXCEPT
                               ![c] = Extraction("idle", language,
                                                 "returned", <<>>)]
          /\ UNCHANGED <<grammarLoads, failedLoads>>
     ELSE IF g \in languageCache
     THEN /\ extractions' = [extractions EXCEPT
                               ![c] = Extraction("idle", language,
                                                 "returned",
                                                 ExtractionResult(language))]
          /\ UNCHANGED <<grammarLoads, failedLoads>>
     ELSE IF ~found
     THEN /\ extractions' = [extractions EXCEPT
                               ![c] = Extraction("idle", language,
                                                 "returned", <<>>)]
          /\ failedLoads' = failedLoads \cup {g}
          /\ UNCHANGED grammarLoads
     ELSE /\ grammarLoads[g] < MaxGrammarLoads
          /\ grammarLoads' = [grammarLoads EXCEPT ![g] = @ + 1]
          /\ extractions' = [extractions EXCEPT
                               ![c] = Extraction("loading", language,
                                                 "none", <<>>)]
          /\ UNCHANGED failedLoads
  /\ UNCHANGED <<parserInstance, parserInit, languageCache, astComments>>
  /\ UNCHANGED <<avars, svars, xvars, wvars, pvars>>

\* Parser.Language.load resolves: the grammar is put into the cache and
\* the document is parsed
LoadLanguageResolve(c) ==
  /\ extractions[c].phase = "loading"
  /\ languageCache' =
       languageCache \cup {languageGrammarMap(extractions[c].language)}
  /\ extractions' = [extractions EXCEPT
                       ![c] = Extraction("idle", @.language, "returned",
                                         ExtractionResult(@.language))]
  /\ UNCHANGED <<parserInstance, parserInit, grammarLoads, failedLoads,
                 astComments>>
  /\ UNCHANGED <<avars, svars, xvars, wvars, pvars>>

\* Parser.Language.load rejects: loadLanguage logs and returns null, the
\* call returns []
LoadLanguageReject(c) ==
  /\ extractions[c].phase = "loading"
  /\ failedLoads' =
       failedLoads \cup {languageGrammarMap(extractions[c].language)}
  /\ extractions' = [extractions EXCEPT
                       ![c] = Extraction("idle", @.language, "returned",
                                         <<>>)]
  /\ UNCHANGED <<parserInstance, parserInit, languageCache, grammarLoads,
                 astComments>>
  /\ UNCHANGED <<avars, svars, xvars, wvars, pvars>>

NextLoader ==
  \/ \E c \in Extractors : InitializeTreeSitterCall(c)
  \/ ParserInitSucceed
  \/ ParserInitFail
  \/ \E c \in Extractors : InitializeTreeSitterResume(c)
  \/ \E c \in Extractors, language \in LoaderLanguages, found \in BOOLEAN :
       ExtractCall(c, language, found)
  \/ \E c \in Extractors : LoadLanguageResolve(c)
  \/ \E c \in Extractors : LoadLanguageReject(c)

SpecLoader == InitLoader /\ [][NextLoader]_vars

\* the callers that await the load of grammar g
LoadingOf(g) ==
  {c \in Extractors : /\ extractions[c].phase = "loading"
                      /\ languageGrammarMap(extractions[c].language) = g}

\* C25: per-grammar loading is single-flight: a load of a grammar is
\* started only when no load of that grammar is pending, so that calls
\* that overlap before the grammar is cached share one load, and after a
\* successful load the grammar is served from the cache and never loaded
\* again
C25_GrammarLoadSingleFlight ==
  [][\A g \in Grammars :
       grammarLoads'[g] > grammarLoads[g]
         => (LoadingOf(g) = {} /\ g \notin languageCache)]_vars

\* C26: when loading the grammar of a language fails, the extraction call
\* returns an empty result without raising an error, and no later
\* extraction call attempts to load that grammar again
C26_NoLoadAfterFailure ==
  [][/\ \A g \in failedLoads : grammarLoads'[g] = grammarLoads[g]
     /\ \A c \in Extractors :
          (/\ extractions[c].phase = "loading"
           /\ languageGrammarMap(extractions[c].language) \in failedLoads'
           /\ languageGrammarMap(extractions[c].language)
                \notin failedLoads)
            => /\ extractions'[c].outcome = "returned"
               /\ extractions'[c].result = <<>>]_vars


(***************************************************************************)
(* server.ts: validation passes of the same document that overlap at       *)
(* await getDocumentConfig, over documents with several segments, with an  *)
(* analysis that can throw.  The tokenizer is ready throughout.            *)
(***************************************************************************)

MaxOverlap == 2   \* validation passes suspended at once

PassSlots == 1..MaxOverlap

\* textDocument.languageId of the two open documents
DocLanguage(d) == IF d = "doc1" THEN "latex" ELSE "plaintext"

\* the texts a document is changed to: a comma, an opening brace and a
\* comma, which are two segments of a latex document, and a comma alone
TwoSegmentText == <<12289, 123, 12289>>
OneSegmentText == <<12289>>
PassTexts == {TwoSegmentText, OneSegmentText}

\* the configuration a pass receives: enabled or not
PassConfigs == {[ExtractConfig EXCEPT !.enable = e] : e \in BOOLEAN}

\* the 0-based positions in the segment list of the segments that pass the
\* ratio check, in order: analyze is called once for each
AnalysedSegments(segs, cfg) ==
  SelectSeq([k \in 1..Len(segs) |-> k],
            LAMBDA k : ~RatioBelow(segs[k].text, cfg.minJapaneseRatio))

\* the diagnostics of the segments analysed before the one that throws
DiagnosticsBefore(s, segs, analysed, entries, throwsAt) ==
  LET before == SelectSeq(entries,
                  LAMBDA e : e.segment < analysed[throwsAt])
  IN  [i \in 1..Len(before) |->
         LspDiagnostic(s, segs[before[i].segment], before[i].info)]

\* the try block as PassTry, but with the diagnostics collected so far
\* sent from the catch block
PassTrySendsCollected(s, segs, analysed, entries, throwsAt) ==
  IF throwsAt \in 1..Len(analysed)
  THEN [sent |-> TRUE, threw |-> TRUE, analysed |-> throwsAt - 1,
        diagnostics |->
          DiagnosticsBefore(s, segs, analysed, entries, throwsAt)]
  ELSE [sent |-> TRUE, threw |-> FALSE, analysed |-> Len(analysed),
        diagnostics |->
          [i \in 1..Len(entries) |->
             LspDiagnostic(s, segs[entries[i].segment], entries[i].info)]]

\* the try block of validateTextDocument on the segments segs of the text
\* s, of which those listed in analysed are analysed and yield the entries;
\* the call of analyze number throwsAt throws (none does when throwsAt is 0
\* or larger than their number): what is sent, and how many segments had
\* been analysed
PassTry(s, segs, analysed, entries, throwsAt) ==
  IF throwsAt \in 1..Len(analysed)
  THEN [sent |-> FALSE, threw |-> TRUE, analysed |-> throwsAt - 1,
        diagnostics |-> <<>>]
  ELSE [sent |-> TRUE, threw |-> FALSE, analysed |-> Len(analysed),
        diagnostics |->
          [i \in 1..Len(entries) |->
             LspDiagnostic(s, segs[entries[i].segment], entries[i].info)]]

\* the segments of the text are analysed under the configuration
PassSegments(s, segs, cfg, throwsAt) ==
  PassTry(s, segs, AnalysedSegments(segs, cfg), SegmentsTrace(segs, cfg),
          throwsAt)

\* validateTextDocument after the configuration has arrived, on the text s
\* that textDocument.getText() returns
PassBody(s, language, cfg, throwsAt) ==
  IF ~cfg.enable
  THEN [sent |-> TRUE, threw |-> FALSE, analysed |-> 0, diagnostics |-> <<>>]
  ELSE PassSegments(s, getAnalyzableText(s, language), cfg, throwsAt)

\* PassBody on every text a document can have, for both documents
PassOutcomes ==
  [d \in Docs, s \in PassTexts \cup {<<>>}, cfg \in PassConfigs,
   throwsAt \in 0..2 |-> PassBody(s, DocLanguage(d), cfg, throwsAt)]

\* the text a pass works on, were it taken when the pass is called
TextAtEntry(entryText, current) == entryText

\* const text = textDocument.getText(), after the await: the text the
\* document has when the pass resumes
TextOfPass(entryText, current) == current

\* what a step did: the document, the text the document had when the pass
\* was called, whether analyze threw and after how many segments, and what
\* was sent
PassStep(op, doc, entryText, threw, analysed, sent, diags) ==
  [op |-> op, doc |-> doc, entryText |-> entryText, threw |-> threw,
   analysed |-> analysed, sent |-> sent, diagnostics |-> diags]

FreePass == [phase |-> "free", doc |-> "doc1", entryText |-> <<>>]

InitPasses ==
  /\ NoAnalysis
  /\ NoComponents
  /\ mecabInstance = TRUE
  /\ initPromise = "fulfilled"
  /\ loadStarts = 1
  /\ callers = <<>>
  /\ docText = [d \in Docs |-> <<>>]
  /\ published = [d \in Docs |-> [sent |-> FALSE, diagnostics |-> <<>>]]
  /\ passes = [p \in PassSlots |-> FreePass]
  /\ lastStep = [op |-> "none"]

\* validateTextDocument(d) up to await getDocumentConfig(...)
PassEntry(p, d, op) ==
  /\ passes[p].phase = "free"
  /\ passes' = IF ValidateProceeds(mecabInstance)
               THEN [passes EXCEPT
                       ![p] = [phase |-> "config", doc |-> d,
                               entryText |-> docText'[d]]]
               ELSE passes
  /\ lastStep' = PassStep(op, d, docText'[d], FALSE, 0, FALSE, <<>>)

\* documents.onDidChangeContent: the document has new text and is validated
ContentChange(p, d, s) ==
  /\ docText' = [docText EXCEPT ![d] = s]
  /\ PassEntry(p, d, "change")
  /\ UNCHANGED <<mecabInstance, initPromise, loadStarts, callers, published>>
  /\ UNCHANGED <<avars, xvars, cvars>>

\* onDidChangeConfiguration: an open document is validated again
ConfigurationChange(p, d) ==
  /\ docText' = docText
  /\ PassEntry(p, d, "configuration")
  /\ UNCHANGED <<mecabInstance, initPromise, loadStarts, callers, published>>
  /\ UNCHANGED <<avars, xvars, cvars>>

\* validateTextDocument(d) from the arrival of the configuration to its end
PassResume(p, cfg, throwsAt) ==
  /\ passes[p].phase = "config"
  /\ LET d == passes[p].doc
         r == PassOutcomes[d, TextOfPass(passes[p].entryText, docText[d]),
                           cfg, throwsAt]
     IN  /\ published' =
              IF r.sent
              THEN [published EXCEPT
                      ![d] = [sent |-> TRUE, diagnostics |-> r.diagnostics]]
              ELSE published
         /\ lastStep' = PassStep("resume", d, passes[p].entryText, r.threw,
                                 r.analysed, r.sent, r.diagnostics)
  /\ passes' = [passes EXCEPT ![p] = FreePass]
  /\ UNCHANGED <<mecabInstance, initPromise, loadStarts, callers, docText>>
  /\ UNCHANGED <<avars, xvars, cvars>>

\* documents.onDidClose: the diagnostics of the document are cleared
DocumentClose(d) ==
  /\ published' = [published EXCEPT
                     ![d] = [sent |-> TRUE, diagnostics |-> <<>>]]
  /\ lastStep' = PassStep("close", d, <<>>, FALSE, 0, TRUE, <<>>)
  /\ UNCHANGED <<mecabInstance, initPromise, loadStarts, callers, docText,
                 passes>>
  /\ UNCHANGED <<avars, xvars, cvars>>

NextPasses ==
  \/ \E p \in PassSlots, d \in Docs, s \in PassTexts : ContentChange(p, d, s)
  \/ \E p \in PassSlots, d \in Docs : ConfigurationChange(p, d)
  \/ \E p \in PassSlots, cfg \in PassConfigs, throwsAt \in 0..2 :
       PassResume(p, cfg, throwsAt)
  \/ \E d \in Docs : DocumentClose(d)

SpecPasses == InitPasses /\ [][NextPasses]_vars

\* the diagnostics that a pass over text s of document d can send
DiagnosticsFor(d, s) ==
  {PassOutcomes[d, s, cfg, 0].diagnostics : cfg \in PassConfigs}

\* a suspended pass is not cancelled: its slot changes only when it resumes
SuspendedUntilResumed ==
  \A p \in PassSlots :
    (passes[p].phase = "config" /\ passes'[p] # passes[p])
      => (lastStep'.op = "resume" /\ passes'[p] = FreePass)

\* a pass that resumes without an exception publishes, and what it
\* publishes is what is shown for the document
ResumedPassPublishes ==
  (lastStep.op = "resume" /\ ~lastStep.threw) =>
    /\ lastStep.sent
    /\ published[lastStep.doc].diagnostics = lastStep.diagnostics

C28_ExceptionPublishesNothing ==
  [][(lastStep'.op = "resume" /\ lastStep'.threw) =>
       /\ ~lastStep'.sent
       /\ published' = published
       /\ docText' = docText
       /\ mecabInstance' = mecabInstance
       /\ \E p \in PassSlots :
            /\ passes[p].phase = "config"
            /\ passes' = [passes EXCEPT ![p] = FreePass]]_vars

\* the second call of analyze throws in a pass over a document with two
\* comments: the diagnostic of the first comment is not published, and the
\* pass for the other document is still suspended
C28_Witness ==
  /\ lastStep.op = "resume"
  /\ lastStep.threw
  /\ lastStep.analysed = 1
  /\ lastStep.doc = "doc1"
  /\ ~published["doc1"].sent
  /\ \E p \in PassSlots : passes[p].phase = "config" /\ passes[p].doc = "doc2"

\* ------------------------------------------------------------------------
\* A local offset is translated by offsetToPosition and the host reads the
\* position back with TextDocument.offsetAt.

MaxPosText == 3

\* a, line feed, carriage return, and the two halves of U+1F600
PosAlphabet == {97, 10, 13, 55357, 56832}
PosTexts    == SeqsUpTo(PosAlphabet, MaxPosText)

\* o does not fall between the two code units of one character
IsCharacterBoundary(s, o) ==
  ~(/\ 0 < o
    /\ o < Len(s)
    /\ s[o] \in 55296..56319
    /\ s[o + 1] \in 56320..57343)

InitPosition ==
  /\ NoServer
  /\ NoExtract
  /\ parserInstance = FALSE
  /\ parserInit = "null"
  /\ languageCache = {}
  /\ grammarLoads = <<>>
  /\ failedLoads = {}
  /\ extractions = <<>>
  /\ astComments = <<>>
  /\ cache = <<>>
  /\ now = 0
  /\ lookups = <<>>
  /\ unanswered = {}
  /\ lastLookup = [op |-> "none"]
  /\ text \in PosTexts
  /\ localOffset \in {o \in 0..Len(text) : IsCharacterBoundary(text, o)}
  /\ reported = NoPosition
  /\ hostOffset = -1
  /\ records = <<>>
  /\ tokens = <<>>
  /\ sentences = <<>>
  /\ diagnostics = <<>>
  /\ config = NoConfig
  /\ pc = "offset"

\* offsetToPosition(text, offset)
DoOffsetToPosition ==
  /\ pc = "offset"
  /\ reported' = offsetToPosition(text, localOffset)
  /\ pc' = "position"
  /\ UNCHANGED <<text, records, tokens, sentences, diagnostics, config,
                 svars, xvars, tvars, wvars, localOffset, hostOffset>>

\* textDocument.offsetAt({ line, character })
DoOffsetAt ==
  /\ pc = "position"
  /\ hostOffset' = offsetAt(text, reported)
  /\ pc' = "read"
  /\ UNCHANGED <<text, records, tokens, sentences, diagnostics, config,
                 svars, xvars, tvars, wvars, localOffset, reported>>

NextPosition == DoOffsetToPosition \/ DoOffsetAt

SpecPosition == InitPosition /\ [][NextPosition]_vars

\* C29: for every text and every offset at a character boundary, the host's
\* offsetAt gives back the offset that offsetToPosition was given.
C29_RoundTripIsIdentity ==
  pc = "read" => hostOffset = localOffset

\* ------------------------------------------------------------------------
\* checkGrammar on the tokens of any answer of the backend, the answers
\* that do not spell the text included.

MaxRangeText    == 2
MaxRangeRecords == 3

\* ga, the comma, the full stop, line feed
RangeAlphabet == {12364, 12289, 12290, 10}
RangeTexts    == SeqsUpTo(RangeAlphabet, MaxRangeText)

\* a record with an empty surface
EmptyRecord == Plain(<<>>, "Kigou")

RangeLexicon ==
  {GaSetsuzoku, Touten, Kuten, DeConj, KoreMizen, EmptyRecord}
RangeAnswers == SeqsUpTo(RangeLexicon, MaxRangeRecords)

\* every rule enabled, every limit at its lowest
RangeConfigs == {FlagsConfig(AllRules, 0, 0)}

InitRanges ==
  /\ NoServer
  /\ NoComponents
  /\ NoExtract
  /\ text \in RangeTexts
  /\ records \in RangeAnswers
  /\ tokens = <<>>
  /\ sentences = <<>>
  /\ diagnostics = <<>>
  /\ config = NoConfig
  /\ pc = "input"

DoCheckRanges == CheckGrammarWith(RangeConfigs)

NextRanges == DoTokenize \/ DoSplit \/ DoCheckRanges

SpecRanges == InitRanges /\ [][NextRanges]_vars

\* the positions of d are those of two offsets a <= b of the text s
RangeWithin(s, d) ==
  \E a \in 0..Len(s) : \E b \in a..Len(s) :
    /\ PositionOf(s, a) = d.start
    /\ PositionOf(s, b) = d.end

\* C30: every diagnostic of checkGrammar, whatever tokens tokenize produced
\* on the text, has a range within the text: its start and end are the
\* positions of offsets a and b with 0 <= a <= b <= Len(text)
C30_RangesWithinSegment ==
  pc = "checked" =>
    \A i \in 1..Len(diagnostics) : RangeWithin(text, diagnostics[i])

\* a diagnostic was produced from a token that ends after the end of the
\* text
C30_Witness ==
  /\ pc = "checked"
  /\ text # <<>>
  /\ \E i \in 1..Len(diagnostics) :
       diagnostics[i].code = "duplicate-particle"
  /\ \E k \in 1..Len(tokens) :
       /\ tokens[k].pos = "Joshi"
       /\ tokens[k].offset + Len(tokens[k].surface) > Len(text)

\* ------------------------------------------------------------------------
\* HTML documents with script and style elements.

MaxHtmlPieces == 3

ScriptOpen  == <<60, 115, 99, 114, 105, 112, 116, 62>>
ScriptClose == <<60, 47, 115, 99, 114, 105, 112, 116, 62>>
StyleOpen   == <<60, 115, 116, 121, 108, 101, 62>>
StyleClose  == <<60, 47, 115, 116, 121, 108, 101, 62>>

\* the tags of script, style and paragraph elements, and a comma
HtmlPieces ==
  {ScriptOpen, ScriptClose, StyleOpen, StyleClose, OpenP, CloseP, <<12289>>}

RECURSIVE Flatten(_)
Flatten(pieces) ==
  IF pieces = <<>> THEN <<>> ELSE Head(pieces) \o Flatten(Tail(pieces))

HtmlDocuments == {Flatten(q) : q \in SeqsUpTo(HtmlPieces, MaxHtmlPieces)}

InitHtml ==
  /\ NoServer
  /\ NoComponents
  /\ languageId = "html"
  /\ text \in HtmlDocuments
  /\ segments = <<>>
  /\ trace = <<>>
  /\ allDiagnostics = <<>>
  /\ records = <<>>
  /\ tokens = <<>>
  /\ sentences = <<>>
  /\ diagnostics = <<>>
  /\ config = ExtractConfig
  /\ pc = "document"

NextHtml == DoExtract \/ DoValidateSegments

SpecHtml == InitHtml /\ [][NextHtml]_vars

\* the code unit at offset o of s is content of an element with the start
\* tag open and the end tag close
InsideElement(s, o, open, close) ==
  \E a \in 0..o :
    /\ OccursAt(s, open, a)
    /\ a + Len(open) <= o
    /\ \A b \in (a + Len(open))..o : ~OccursAt(s, close, b)

InsideScriptOrStyle(s, o) ==
  \/ InsideElement(s, o, ScriptOpen, ScriptClose)
  \/ InsideElement(s, o, StyleOpen, StyleClose)

\* C31: no segment of an HTML document contains text that lies inside a
\* script or style element
C31_NoSegmentInsideScriptOrStyle ==
  pc # "document" =>
    \A k \in 1..Len(segments) :
      \A o \in segments[k].offset
                ..(segments[k].offset + Len(segments[k].text) - 1) :
        ~InsideScriptOrStyle(text, o)

\* ------------------------------------------------------------------------
\* Python documents that are one string literal.

MaxStringBody == 3

StringDocuments ==
  {q \o b \o q : q \in StringQuotes,
                 b \in SeqsUpTo(CandidateAlphabet, MaxStringBody)}

InitString ==
  /\ NoServer
  /\ NoTranslation
  /\ languageId = "python"
  /\ text \in StringDocuments
  /\ \E r \in RatioThresholds : config = [minJapaneseRatio |-> r]
  /\ segments = <<>>
  /\ trace = <<>>
  /\ allDiagnostics = <<>>
  /\ records = <<>>
  /\ tokens = <<>>
  /\ sentences = <<>>
  /\ diagnostics = <<>>
  /\ pc = "candidate"
  /\ parserInstance = TRUE
  /\ parserInit = "fulfilled"
  /\ languageCache = {languageGrammarMap(languageId)}
  /\ grammarLoads = <<>>
  /\ failedLoads = {}
  /\ extractions = <<>>
  /\ astComments = <<>>
  /\ cache = <<>>
  /\ now = 0
  /\ lookups = <<>>
  /\ unanswered = {}
  /\ lastLookup = [op |-> "none"]

NextString == DoRegexStrategy \/ DoAstStrategy

SpecString == InitString /\ [][NextString]_vars

IsTripleQuoted(s) ==
  OccursAt(s, <<34, 34, 34>>, 0) \/ OccursAt(s, <<39, 39, 39>>, 0)

\* C32: in the AST strategy for python a string node becomes a segment
\* only if it is delimited by triple quotes
C32_OnlyTripleQuotedStrings ==
  (pc = "both" /\ astComments # <<>>) => IsTripleQuoted(text)

\* ------------------------------------------------------------------------
\* Validation passes of one document and hover lookups of one term, side by
\* side in one server.

\* the configuration of the workspace: the fields validateTextDocument
\* reads and enableWikipedia, which the hover handler reads
EnrichConfigs ==
  {[enable             |-> e,
    enableWikipedia    |-> w,
    minJapaneseRatio   |-> ExtractConfig.minJapaneseRatio,
    warningMinSeverity |-> ExtractConfig.warningMinSeverity,
    rules              |-> ExtractConfig.rules] : e \in BOOLEAN, w \in BOOLEAN}

\* the configuration as a pass that stops when enrichment is off would
\* read it
ValidationConfigGated(c) ==
  [enable             |-> c.enable /\ c.enableWikipedia,
   minJapaneseRatio   |-> c.minJapaneseRatio,
   warningMinSeverity |-> c.warningMinSeverity,
   rules              |-> c.rules]

\* what validateTextDocument reads of the configuration: enable,
\* minJapaneseRatio, warningMinSeverity and the rules
ValidationConfig(c) ==
  [enable             |-> c.enable,
   minJapaneseRatio   |-> c.minJapaneseRatio,
   warningMinSeverity |-> c.warningMinSeverity,
   rules              |-> c.rules]

InitEnrich ==
  /\ NoTranslation
  /\ NoExtract
  /\ text = <<>>
  /\ records = <<>>
  /\ tokens = <<>>
  /\ sentences = <<>>
  /\ diagnostics = <<>>
  /\ config \in EnrichConfigs
  /\ pc = "server"
  /\ mecabInstance = TRUE
  /\ initPromise = "fulfilled"
  /\ loadStarts = 1
  /\ callers = <<>>
  /\ docText = [d \in Docs |-> <<>>]
  /\ published = [d \in Docs |-> [sent |-> FALSE, diagnostics |-> <<>>]]
  /\ passes = [p \in PassSlots |-> FreePass]
  /\ lastStep = [op |-> "none"]
  /\ parserInstance = FALSE
  /\ parserInit = "null"
  /\ languageCache = {}
  /\ grammarLoads = <<>>
  /\ failedLoads = {}
  /\ extractions = <<>>
  /\ astComments = <<>>
  /\ cache = [t \in Terms |-> NoEntry]
  /\ now = 0
  /\ lookups = [l \in Lookups |-> Idle]
  /\ unanswered = {}
  /\ lastLookup = [op |-> "none"]

\* validateTextDocument resumes with the configuration of the workspace
ConfiguredResume(p, throwsAt) ==
  PassResume(p, ValidationConfig(config), throwsAt)

\* connection.onHover on a noun: await fetchWikipediaSummary(baseForm)
HoverLookup(l, t) ==
  /\ config.enable
  /\ config.enableWikipedia
  /\ LookupStart(l, t)

NextEnrich ==
  \/ \E s \in PassTexts : ContentChange(1, "doc1", s)
  \/ ConfigurationChange(1, "doc1")
  \/ \E throwsAt \in 0..1 : ConfiguredResume(1, throwsAt)
  \/ DocumentClose("doc1")
  \/ HoverLookup(1, "neko")
  \/ \E status \in Statuses : FetchResolve(1, status)
  \/ FetchReject(1)
  \/ \E extract \in Extracts : JsonResolve(1, extract)
  \/ JsonReject(1)
  \/ ClearCache

SpecEnrich == InitEnrich /\ [][NextEnrich]_vars

\* a step of a validation pass
IsPassStep == lastStep' # lastStep \/ passes' # passes

\* C33: a validation pass issues no enrichment lookup and touches neither
\* the cache nor a pending lookup; a suspended pass can resume whatever the
\* lookups are doing; and the diagnostics a pass publishes are those of the
\* document text under the enable flag and the rules alone, whatever the
\* cache holds, enableWikipedia says or a lookup returned
C33_LookupNeverAffectsDiagnostics ==
  /\ [][IsPassStep => UNCHANGED wvars]_vars
  /\ [](\A p \in PassSlots :
          passes[p].phase = "config" => ENABLED ConfiguredResume(p, 0))
  /\ []((lastStep.op = "resume" /\ ~lastStep.threw) =>
          /\ lastStep.sent
          /\ lastStep.diagnostics =
               PassOutcomes[lastStep.doc, docText[lastStep.doc],
                            [ExtractConfig EXCEPT !.enable = config.enable],
                            0].diagnostics)

\* a pass has published diagnostics while a lookup was waiting for its
\* response and enrichment was enabled
C33_Witness ==
  /\ lastStep.op = "resume"
  /\ lastStep.sent
  /\ lastStep.diagnostics # <<>>
  /\ config.enableWikipedia
  /\ lookups[1].phase = "fetching"

\* the terms the cache has an entry for
CachedTerms(c) == {t \in DOMAIN c : c[t] # NoEntry}

\* C34: no step removes an entry of the cache but the clear operation,
\* which empties it: every other step keeps the entries or adds or
\* overwrites one by key
C34_OnlyClearRemoves ==
  [][\/ CachedTerms(cache) \subseteq CachedTerms(cache')
     \/ (lastLookup'.op = "clear" /\ CachedTerms(cache') = {})]_vars

\* a lookup of a term whose entry is stale has failed, and the stale
\* entry is still in the cache
C34_Witness ==
  /\ lastLookup.op = "failure"
  /\ cache[lastLookup.term] # NoEntry
  /\ ~IsFresh(cache[lastLookup.term], now)

\* ------------------------------------------------------------------------
\* Validation under each minimum severity.

MaxSeverityText == 3

\* warningMinSeverity: 1 | 2 | 3 | 4
SeverityLevels == 1..4

SeverityConfigs ==
  {[ExtractConfig EXCEPT !.warningMinSeverity = m] : m \in SeverityLevels}

\* plain texts of commas, full stops and a Latin letter, and a source file
\* with two comments
SeverityDocuments ==
  {<<"plaintext", s>> : s \in SeqsUpTo({12289, 12290, 97}, MaxSeverityText)}
    \cup {<<"javascript", <<47, 47, 12289, 10, 47, 47, 12289>>>>}

InitSeverity ==
  /\ NoServer
  /\ NoComponents
  /\ \E d \in SeverityDocuments : languageId = d[1] /\ text = d[2]
  /\ segments = <<>>
  /\ trace = <<>>
  /\ allDiagnostics = <<>>
  /\ records = <<>>
  /\ tokens = <<>>
  /\ sentences = <<>>
  /\ diagnostics = <<>>
  /\ config \in SeverityConfigs
  /\ pc = "document"

NextSeverity == DoExtract \/ DoValidateSegments

SpecSeverity == InitSeverity /\ [][NextSeverity]_vars

\* what checkGrammar returned for the segments that were analysed, in
\* order
GrammarResults(segs, cfg) ==
  Concat([k \in 1..Len(segs) |->
    IF RatioBelow(segs[k].text, cfg.minJapaneseRatio) THEN <<>>
    ELSE checkGrammar(segs[k].text,
           SplitSentences(segs[k].text,
             Tokenize(segs[k].text, BackendAnswer(segs[k].text))),
           cfg)])

\* C35: a diagnostic is delivered only if its severity is at most
\* warningMinSeverity: with warningMinSeverity 1 the pass publishes the
\* empty list, with 2 or more it publishes every diagnostic checkGrammar
\* returned
C35_SeverityFilter ==
  pc = "sent" =>
    /\ \A i \in 1..Len(allDiagnostics) :
         allDiagnostics[i].severity <= config.warningMinSeverity
    /\ config.warningMinSeverity = 1 => allDiagnostics = <<>>
    /\ config.warningMinSeverity >= 2 =>
         [i \in 1..Len(trace) |-> trace[i].info]
           = GrammarResults(segments, config)

\* checkGrammar returned diagnostics and none is published, the minimum
\* severity being 1
C35_Witness ==
  /\ pc = "sent"
  /\ config.warningMinSeverity = 1
  /\ GrammarResults(segments, config) # <<>>
  /\ allDiagnostics = <<>>

\* ------------------------------------------------------------------------
\* Source files with line comments and block comments.

MaxCommentPieces == 4

\* the markers of line and block comments, a comma and a line feed
CommentPieces == {<<47, 47>>, <<47, 42>>, <<42, 47>>, <<12289>>, <<10>>}

CommentDocuments ==
  {Flatten(q) : q \in SeqsUpTo(CommentPieces, MaxCommentPieces)}

InitOrder ==
  /\ NoServer
  /\ NoComponents
  /\ languageId = "javascript"
  /\ text \in CommentDocuments
  /\ segments = <<>>
  /\ trace = <<>>
  /\ allDiagnostics = <<>>
  /\ records = <<>>
  /\ tokens = <<>>
  /\ sentences = <<>>
  /\ diagnostics = <<>>
  /\ config = ExtractConfig
  /\ pc = "document"

NextOrder == DoExtract \/ DoValidateSegments

SpecOrder == InitOrder /\ [][NextOrder]_vars

\* C36: the segments of one extraction pass are in increasing offset order
\* and do not overlap: each ends at or before the offset of the next
C36_SegmentsOrderedDisjoint ==
  pc # "document" =>
    \A i \in 1..Len(segments) : \A j \in 1..Len(segments) :
      i < j =>
        /\ segments[i].offset < segments[j].offset
        /\ segments[i].offset + Len(segments[i].text) <= segments[j].offset

\* C37: the tokens tokenize returns do not overlap: each token ends at or
\* before the offset of the next
C37_TokensDoNotOverlap ==
  pc = "tokenized" =>
    \A i \in 1..(Len(tokens) - 1) :
      tokens[i].offset + Len(tokens[i].surface) <= tokens[i + 1].offset

\* C38: once initialization has failed the failed operation stays in the
\* slot: no step starts a new load or makes the tokenizer ready, a call of
\* initialize made afterwards waits on the failed operation, and every
\* caller that waits on it fails
C38_FailedInitializationStays ==
  [][initPromise = "rejected" =>
       /\ initPromise' = "rejected"
       /\ loadStarts' = loadStarts
       /\ ~isMecabReady(mecabInstance')
       /\ \A c \in Callers :
            /\ (callers[c] = "idle" /\ callers'[c] # "idle")
                 => callers'[c] = "awaiting"
            /\ (callers[c] = "awaiting" /\ callers'[c] # "awaiting")
                 => callers'[c] = "threw"]_vars

\* initialize was called after the failure and started no load, and a
\* caller has failed
C38_Witness ==
  /\ initPromise = "rejected"
  /\ loadStarts = 1
  /\ lastStep.op = "initialize"
  /\ ~lastStep.threw
  /\ \E c \in Callers : callers[c] = "threw"
  /\ \E c \in Callers : callers[c] = "awaiting"

\* tokens i and i + 1 of sentence k are particles with the same surface and
\* the same key, the second starting where the first ends
TwiceReportedPair(k, i) ==
  LET ts == sentences[k].tokens IN
  /\ isParticle(ts[i])
  /\ isParticle(ts[i + 1])
  /\ ts[i].surface = ts[i + 1].surface
  /\ getParticleKey(ts[i]) = getParticleKey(ts[i + 1])
  /\ ts[i + 1].offset = ts[i].offset + Len(ts[i].surface)

\* C39: with both rules enabled, every two consecutive tokens of a sentence
\* that are particles with the same surface and the same key, the second
\* starting exactly where the first ends, are reported twice by
\* checkGrammar: by a duplicate-particle and by an adjacent-particles
\* diagnostic, both from the start of the first to the end of the second
C39_PairReportedTwice ==
  (/\ pc = "checked"
   /\ config.rules.duplicateParticle
   /\ config.rules.adjacentParticles) =>
    \A k \in 1..Len(sentences) :
      \A i \in 1..(Len(sentences[k].tokens) - 1) :
        TwiceReportedPair(k, i) =>
          LET ts == sentences[k].tokens
              span == Span(ts[i].offset, EndOf(ts[i + 1]))
              dup == SpanSeq("duplicate-particle")
              adj == SpanSeq("adjacent-particles")
          IN  /\ \E j \in 1..Len(dup) : dup[j] = span
              /\ \E j \in 1..Len(adj) : adj[j] = span

\* checkGrammar has run with both rules on a sentence holding such a pair
\* after a noun, and the two diagnostics of the pair are all it reported
C39_Witness ==
  /\ pc = "checked"
  /\ config.rules.duplicateParticle
  /\ config.rules.adjacentParticles
  /\ text = <<12354, 12364, 12364>>
  /\ Len(sentences) = 1
  /\ Len(sentences[1].tokens) = 3
  /\ TwiceReportedPair(1, 2)
  /\ SpanSeq("duplicate-particle") = <<Span(1, 3)>>
  /\ SpanSeq("adjacent-particles") = <<Span(1, 3)>>
  /\ Len(diagnostics) = 2

====
